---- MODULE Spec2Model ----
(***************************************************************************)
(* State-machine model of the terminalnode mind-map editor: the document   *)
(* (nodes, edges, selection), the camera, the three input modes and the    *)
(* save/load of mindmap.json.                                              *)
(*                                                                         *)
(* Representation choices                                                  *)
(*  - A float64 is a fixed-point integer counting 1/Scale world units.     *)
(*    Every coordinate the layout code produces is a whole number of world *)
(*    units, so node positions are exact; camera arithmetic (x1.2, x0.8,   *)
(*    x0.25, 5/zoom) is rounded to the nearest 1/Scale.                    *)
(*  - A Go string used as text is a sequence of one-character strings; a   *)
(*    node identity, a colour and a status message are TLA+ strings.       *)
(*  - A nil *Node is "the key is not in DOMAIN Nodes".                     *)
(*  - Ranging over a Go map visits the keys in an unspecified order: the   *)
(*    "first" key of such a loop is a nondeterministic choice.             *)
(***************************************************************************)
EXTENDS Integers, Sequences, FiniteSets, TLC

VARIABLES
    Nodes,            \* Model.Nodes: identity -> Node record
    Edges,            \* Model.Edges: sequence of [FromID, ToID]
    Camera,           \* Model.Camera: [X, Y, Zoom, TargetX, TargetY, TargetZoom]
    Selected,         \* Model.Selected ("" = none)
    Mode,             \* Model.Mode: "normal" | "edit" | "link"
    EditBuffer,       \* Model.EditBuffer
    IsCreatingNode,   \* Model.IsCreatingNode
    IsCreatingChild,  \* Model.IsCreatingChild
    NextID,           \* Model.NextID
    StatusMsg,        \* Model.StatusMsg
    LinkSourceID,     \* Model.LinkSourceID
    NextColorIndex,   \* Model.NextColorIndex
    file,             \* contents of mindmap.json on disk
    lastOp,           \* history: the document operation the last step ran
    zoomOps,          \* history: zoom key presses so far (bounded)
    panOps,           \* history: pan key presses so far (bounded)
    ticks,            \* history: timer ticks so far (bounded)
    createdUnderRoot, \* history: nodes created with ParentID "0" so far
    loads,            \* history: documents loaded so far (bounded)
    cycleRun,         \* history: the selections of a run of "]" presses, from
                      \* the selection the run began with (SpecCycle only)
    probe,            \* the last coordinate conversion asked for and its result
                      \* (SpecCoord only)
    saved,            \* history: the document as it was at the last "ctrl+s",
                      \* <<>> before the first
    view              \* the call of View in progress or finished last: its
                      \* grid and how far it has painted (SpecRender only)

vars == <<Nodes, Edges, Camera, Selected, Mode, EditBuffer, IsCreatingNode,
          IsCreatingChild, NextID, StatusMsg, LinkSourceID, NextColorIndex,
          file, lastOp, zoomOps, panOps, ticks, createdUnderRoot, loads,
          cycleRun, probe, saved, view>>

docVars == <<Nodes, Edges, Selected, NextID, StatusMsg, NextColorIndex>>
uiVars == <<Mode, EditBuffer, IsCreatingNode, IsCreatingChild, LinkSourceID>>
histVars == <<zoomOps, panOps, ticks, createdUnderRoot, loads, cycleRun, probe, saved,
              view>>

-----------------------------------------------------------------------------
(* Bounds of the model *)

\* A node is created only while NextID <= MaxID.
MaxID == 5
\* The tall text is typed only while fewer than MaxTall tall boxes exist.
MaxTall == 1
\* SpecDoc: while NextID <= MaxDocID a node is created only if fewer than
\* MaxLive nodes exist; later, up to NextID = MaxLongID, only if fewer than
\* MaxLateLive exist.
MaxLive == 4
MaxDocID == 3
MaxLateLive == 2
MaxLongID == 9
\* A link is begun only while fewer than MaxEdges edges exist.
MaxEdges == 2
MaxFileID == 3
MaxLoads == 1
MaxCycleID == 3
MaxViewZoomOps == 2
MaxEighths == 9
MaxSizeID == 2
MaxLoadID == 2
MaxWrapLen == 7
\* drawLineSegment is asked for end points this far from the origin, and its
\* loop is followed for this many passes
MaxLineCoord == 6
MaxPasses == 32
\* SpecRender creates nodes while NextID <= MaxRenderID.
MaxRenderID == 2
\* SpecCut creates nodes while NextID <= MaxCutID.
MaxCutID == 1
\* Zoom key presses per run.
MaxZoomOps == 8
\* Pan key presses per run.
MaxPanOps == 1
\* Timer ticks per run.
MaxTicks == 2

\* Fixed-point denominator of a float64.
Scale == 10 * 1000

FP(n) == n * Scale

-----------------------------------------------------------------------------
(* Text: sequences of one-character strings *)

Rep(c, n) == [i \in 1..n |-> c]

\* "Root Idea", the text of the initial node
RootText == <<"R", "o", "o", "t", " ", "I", "d", "e", "a">>

\* texts the user types in this model
ShortText == <<"a">>
\* 22 letters, a space, one letter: wraps onto two lines
TallText == Rep("a", 22) \o <<" ", "a">>

IsSpace(c) == c \in {" ", "\t", "\n"}

\* strings.Split(text, "\n")
RECURSIVE SplitNL(_, _)
SplitNL(s, cur) ==
    IF s = <<>> THEN <<cur>>
    ELSE IF Head(s) = "\n" THEN <<cur>> \o SplitNL(Tail(s), <<>>)
    ELSE SplitNL(Tail(s), Append(cur, Head(s)))

\* strings.Fields(paragraph)
RECURSIVE Fields(_, _)
Fields(s, cur) ==
    IF s = <<>> THEN (IF cur = <<>> THEN <<>> ELSE <<cur>>)
    ELSE IF IsSpace(Head(s))
         THEN (IF cur = <<>> THEN <<>> ELSE <<cur>>) \o Fields(Tail(s), <<>>)
         ELSE Fields(Tail(s), Append(cur, Head(s)))

\* the loop "for len(word) > maxWidth" of wrapText: the full chunks cut off
RECURSIVE WordChunks(_, _)
WordChunks(word, maxWidth) ==
    IF Len(word) > maxWidth
    THEN <<SubSeq(word, 1, maxWidth)>>
         \o WordChunks(SubSeq(word, maxWidth + 1, Len(word)), maxWidth)
    ELSE <<>>

\* ... and the remainder left in currentLine
RECURSIVE WordRest(_, _)
WordRest(word, maxWidth) ==
    IF Len(word) > maxWidth
    THEN WordRest(SubSeq(word, maxWidth + 1, Len(word)), maxWidth)
    ELSE word

\* the "for _, word := range words" loop of wrapText with its trailing flush
RECURSIVE WrapWords(_, _, _)
WrapWords(words, currentLine, maxWidth) ==
    IF words = <<>>
    THEN (IF Len(currentLine) > 0 THEN <<currentLine>> ELSE <<>>)
    ELSE LET word == Head(words) IN
         IF Len(currentLine) > 0 /\ Len(currentLine) + 1 + Len(word) > maxWidth
         THEN IF Len(word) > maxWidth
              THEN <<currentLine>> \o WordChunks(word, maxWidth)
                   \o WrapWords(Tail(words), WordRest(word, maxWidth), maxWidth)
              ELSE <<currentLine>> \o WrapWords(Tail(words), word, maxWidth)
         ELSE WrapWords(Tail(words),
                        IF Len(currentLine) > 0
                        THEN currentLine \o <<" ">> \o word
                        ELSE word,
                        maxWidth)

RECURSIVE WrapParagraphs(_, _)
WrapParagraphs(paragraphs, maxWidth) ==
    IF paragraphs = <<>> THEN <<>>
    ELSE LET paragraph == Head(paragraphs)
             words == Fields(paragraph, <<>>)
         IN (IF Len(paragraph) = 0 \/ Len(words) = 0
             THEN << <<>> >>
             ELSE WrapWords(words, <<>>, maxWidth))
            \o WrapParagraphs(Tail(paragraphs), maxWidth)

wrapText(text, maxWidth) ==
    LET w == IF maxWidth < 5 THEN 5 ELSE maxWidth
        wrappedLines == WrapParagraphs(SplitNL(text, <<>>), w)
    IN IF Len(wrappedLines) = 0 THEN << <<>> >> ELSE wrappedLines

maxTextWidth == 22

RECURSIVE MaxLineLen(_)
MaxLineLen(lines) ==
    IF lines = <<>> THEN 0
    ELSE LET r == MaxLineLen(Tail(lines))
         IN IF Len(Head(lines)) > r THEN Len(Head(lines)) ELSE r

\* calculateNodeSize: [Width, Height] of a text
calculateNodeSize(text) ==
    LET lines == wrapText(text, maxTextWidth)
        width == MaxLineLen(lines) + 4
    IN [Width |-> IF width < 10 THEN 10 ELSE width, Height |-> Len(lines) + 2]

NewNode(id, text, x, y) ==
    [ID |-> id, Text |-> text, X |-> x, Y |-> y,
     Width |-> calculateNodeSize(text).Width,
     Height |-> calculateNodeSize(text).Height,
     ParentID |-> "", Color |-> "", Links |-> <<>>]

-----------------------------------------------------------------------------
(* Fixed-point arithmetic *)

Abs(x) == IF x < 0 THEN -x ELSE x

\* a * num / den, rounded to the nearest 1/Scale (half away from zero)
MulDiv(a, num, den) ==
    LET p == a * num
        q == (2 * Abs(p) + den) \div (2 * den)
    IN IF p < 0 THEN -q ELSE q

-----------------------------------------------------------------------------
(* Camera (camera.go) *)

ZoomMin == Scale \div 4
ZoomMax == 4 * Scale

NewCamera ==
    [X |-> 0, Y |-> 0, Zoom |-> FP(1), TargetX |-> 0, TargetY |-> 0, TargetZoom |-> FP(1)]

\* Pan that moves the current position with the target
PanDirect(c, dx, dy) ==
    [c EXCEPT !.TargetX = @ + dx, !.TargetY = @ + dy, !.X = @ + dx, !.Y = @ + dy]

Pan(c, dx, dy) == [c EXCEPT !.TargetX = @ + dx, !.TargetY = @ + dy]

\* ZoomIn without its upper clamp
ZoomInUnclamped(c) == [c EXCEPT !.TargetZoom = MulDiv(@, 12, 10)]

ZoomIn(c) ==
    LET z == MulDiv(c.TargetZoom, 12, 10)
    IN [c EXCEPT !.TargetZoom = IF z > ZoomMax THEN ZoomMax ELSE z]

ZoomOut(c) ==
    LET z == MulDiv(c.TargetZoom, 8, 10)
    IN [c EXCEPT !.TargetZoom = IF z < ZoomMin THEN ZoomMin ELSE z]

\* float64 values the conversions compute exactly: rationals <<n, d>>, d > 0
RECURSIVE GCD(_, _)
GCD(a, b) == IF b = 0 THEN a ELSE GCD(b, a % b)

\* the rational a fixed-point value stands for, in lowest terms
Rat(fp) == LET g == GCD(Abs(fp), Scale) IN <<fp \div g, Scale \div g>>

\* math.Round of n/d: to the nearest integer, halves away from zero
Round(n, d) ==
    IF n >= 0 THEN (2 * n + d) \div (2 * d) ELSE -((2 * (-n) + d) \div (2 * d))

\* int(n/d) without math.Round: towards zero
Trunc(n, d) == IF n >= 0 THEN n \div d ELSE -((-n) \div d)

\* (w - pos)*zoom + size/2 as a rational, for one axis
ScreenAxis(pos, zoom, w, size) ==
    LET x == Rat(pos)
        z == Rat(zoom)
    IN <<2 * z[1] * (w[1] * x[2] - x[1] * w[2]) + size * w[2] * x[2] * z[2],
         2 * w[2] * x[2] * z[2]>>

\* WorldToScreen that converts with int() alone
WorldToScreenTruncating(c, wx, wy, screenWidth, screenHeight) ==
    LET sx == ScreenAxis(c.X, c.Zoom, wx, screenWidth)
        sy == ScreenAxis(c.Y, c.Zoom, wy, screenHeight)
    IN <<Trunc(sx[1], sx[2]), Trunc(sy[1], sy[2])>>

WorldToScreen(c, wx, wy, screenWidth, screenHeight) ==
    LET sx == ScreenAxis(c.X, c.Zoom, wx, screenWidth)
        sy == ScreenAxis(c.Y, c.Zoom, wy, screenHeight)
    IN <<Round(sx[1], sx[2]), Round(sy[1], sy[2])>>

\* (s - size/2)/zoom + pos as a rational, for one axis
WorldAxis(pos, zoom, s, size) ==
    LET x == Rat(pos)
        z == Rat(zoom)
    IN <<(2 * s - size) * z[2] * x[2] + 2 * z[1] * x[1], 2 * z[1] * x[2]>>

ScreenToWorld(c, sx, sy, screenWidth, screenHeight) ==
    <<WorldAxis(c.X, c.Zoom, sx, screenWidth), WorldAxis(c.Y, c.Zoom, sy, screenHeight)>>

GetViewportCenter(c) == [x |-> c.X, y |-> c.Y]

\* const threshold = 0.001
threshold == Scale \div 1000

\* one axis of Camera.Update with smoothness 0.25 (update.go:35)
Approach(cur, target) ==
    IF Abs(cur - target) > threshold
    THEN cur + MulDiv(target - cur, 25, 100)
    ELSE target

CameraUpdate(c) ==
    [c EXCEPT !.X = Approach(c.X, c.TargetX),
              !.Y = Approach(c.Y, c.TargetY),
              !.Zoom = Approach(c.Zoom, c.TargetZoom)]

\* an axis that interpolates however close it is
ApproachByNeverSnapping(cur, target, smoothness) ==
    cur + MulDiv(target - cur, smoothness[1], smoothness[2])

\* one axis of Camera.Update(smoothness), the smoothness a fraction <<n, d>>
ApproachBy(cur, target, smoothness) ==
    IF Abs(cur - target) > threshold
    THEN cur + MulDiv(target - cur, smoothness[1], smoothness[2])
    ELSE target

\* the camera after Camera.Update(smoothness)
CameraUpdateBy(c, smoothness) ==
    [c EXCEPT !.X = ApproachBy(c.X, c.TargetX, smoothness),
              !.Y = ApproachBy(c.Y, c.TargetY, smoothness),
              !.Zoom = ApproachBy(c.Zoom, c.TargetZoom, smoothness)]

\* the bool Camera.Update returns
CameraIsMoving(c) ==
    \/ Abs(c.X - c.TargetX) > threshold
    \/ Abs(c.Y - c.TargetY) > threshold
    \/ Abs(c.Zoom - c.TargetZoom) > threshold

-----------------------------------------------------------------------------
(* The document operations of model.go, on a record m of the fields they use:
   [Nodes, Edges, Camera, Selected, NextID, StatusMsg, NextColorIndex] *)

ColorPalette ==
    <<"#FF6B6B", "#4ECDC4", "#45B7D1", "#FFA07A",
      "#98D8C8", "#F7DC6F", "#BB8FCE", "#85C1E2">>

\* ColorPalette[i % len(ColorPalette)], Go indexing from 0
PaletteAt(i) == ColorPalette[(i % Len(ColorPalette)) + 1]

M == [Nodes |-> Nodes, Edges |-> Edges, Camera |-> Camera, Selected |-> Selected,
      NextID |-> NextID, StatusMsg |-> StatusMsg, NextColorIndex |-> NextColorIndex]

\* GetSelectedNode(m) != nil
HasSelectedNode(m) == m.Selected # "" /\ m.Selected \in DOMAIN m.Nodes

GetSelectedNode(m) == m.Nodes[m.Selected]

\* the keys of the children GetChildrenOf returns
GetChildrenOf(m, parentID) == {k \in DOMAIN m.Nodes : m.Nodes[k].ParentID = parentID}

\* the "find the lowest child" loop of AddChildNode, over the children in
\* some order; low = [Y, Height] of the lowest box so far
RECURSIVE LowestChild(_, _, _)
LowestChild(m, children, low) ==
    IF children = {} THEN low
    ELSE LET k == CHOOSE c \in children : TRUE
             child == m.Nodes[k]
             childBottom == child.Y + FP(child.Height)
             next == IF childBottom > low.Y + FP(low.Height)
                     THEN [Y |-> child.Y, Height |-> child.Height]
                     ELSE low
         IN LowestChild(m, children \ {k}, next)

\* a push-down of the nodes strictly below the threshold only
pushDownNodesStrictlyBelow(nodes, thresholdY, amount) ==
    [k \in DOMAIN nodes |->
        IF nodes[k].Y > thresholdY
        THEN [nodes[k] EXCEPT !.Y = @ + amount]
        ELSE nodes[k]]

pushDownNodesBelow(nodes, thresholdY, amount) ==
    [k \in DOMAIN nodes |->
        IF nodes[k].Y >= thresholdY
        THEN [nodes[k] EXCEPT !.Y = @ + amount]
        ELSE nodes[k]]

\* m.Nodes[id] = node
PutNode(nodes, id, node) ==
    [k \in DOMAIN nodes \cup {id} |-> IF k = id THEN node ELSE nodes[k]]

EdgeExists(edges, fromID, toID) ==
    \E i \in 1..Len(edges) : edges[i].FromID = fromID /\ edges[i].ToID = toID

\* AddEdge without its "already exists" check
AddEdgeUnchecked(m, fromID, toID) ==
    [m EXCEPT
        !.Edges = Append(@, [FromID |-> fromID, ToID |-> toID]),
        !.Nodes = IF fromID \in DOMAIN @
                  THEN [@ EXCEPT ![fromID].Links = Append(@, toID)]
                  ELSE @,
        !.StatusMsg = "Created link " \o fromID \o " -> " \o toID]

\* AddEdge without "Also add to node's links"
AddEdgeWithoutLinks(m, fromID, toID) ==
    IF EdgeExists(m.Edges, fromID, toID)
    THEN [m EXCEPT !.StatusMsg = "Edge already exists"]
    ELSE [m EXCEPT
            !.Edges = Append(@, [FromID |-> fromID, ToID |-> toID]),
            !.StatusMsg = "Created link " \o fromID \o " -> " \o toID]

AddEdge(m, fromID, toID) ==
    IF EdgeExists(m.Edges, fromID, toID)
    THEN [m EXCEPT !.StatusMsg = "Edge already exists"]
    ELSE [m EXCEPT
            !.Edges = Append(@, [FromID |-> fromID, ToID |-> toID]),
            !.Nodes = IF fromID \in DOMAIN @
                      THEN [@ EXCEPT ![fromID].Links = Append(@, toID)]
                      ELSE @,
            !.StatusMsg = "Created link " \o fromID \o " -> " \o toID]

\* newNodeHeight := 3 ("Default height") in AddChildNode and AddSiblingNode
newNodeHeight == 3

\* a child that does not inherit its parent's colour
ChildColorNotInherited(m, parentID) ==
    IF parentID = "0" THEN PaletteAt(m.NextColorIndex) ELSE ""

\* "Assign color based on parent" of AddChildNode
ChildColor(m, parentID) ==
    IF parentID = "0" THEN PaletteAt(m.NextColorIndex)
    ELSE IF parentID # "" /\ parentID \in DOMAIN m.Nodes
         THEN m.Nodes[parentID].Color
         ELSE ""

\* a sibling that always takes the selected node's colour
SiblingColorAlwaysInherited(m) == GetSelectedNode(m).Color

\* a sibling that always takes the next palette colour
SiblingColorAlwaysFresh(m) == PaletteAt(m.NextColorIndex)

\* "Assign color based on parent" of AddSiblingNode
SiblingColor(m) ==
    IF GetSelectedNode(m).ParentID = "0"
    THEN PaletteAt(m.NextColorIndex)
    ELSE GetSelectedNode(m).Color

AddChildNode(m, text) ==
    LET id == ToString(m.NextID)
        has == HasSelectedNode(m)
        selectedNode == GetSelectedNode(m)
        spacing == FP(5)
        verticalSpacing == FP(3)
        parentID == IF has THEN selectedNode.ID ELSE ""
        existingChildren == IF has THEN GetChildrenOf(m, selectedNode.ID) ELSE {}
        low == LowestChild(m, existingChildren,
                           [Y |-> selectedNode.Y, Height |-> selectedNode.Height])
        x == IF has THEN selectedNode.X + FP(selectedNode.Width) + spacing
             ELSE GetViewportCenter(m.Camera).x
        y == IF has
             THEN IF existingChildren # {}
                  THEN low.Y + FP(low.Height) + verticalSpacing
                  ELSE selectedNode.Y
             ELSE GetViewportCenter(m.Camera).y
        spaceNeeded == FP(newNodeHeight) + verticalSpacing
        pushed == IF has /\ existingChildren # {}
                  THEN pushDownNodesBelow(m.Nodes, y, spaceNeeded)
                  ELSE m.Nodes
        color == ChildColor(m, parentID)
        node == [NewNode(id, text, x, y) EXCEPT !.ParentID = parentID, !.Color = color]
        m1 == [m EXCEPT !.NextID = @ + 1,
                        !.Nodes = PutNode(pushed, id, node),
                        !.NextColorIndex = IF parentID = "0" THEN @ + 1 ELSE @]
        m2 == IF parentID # "" THEN AddEdge(m1, parentID, id) ELSE m1
    IN [m2 EXCEPT !.Selected = id, !.StatusMsg = "Created child node " \o id]

\* the body of AddSiblingNode after its two fallbacks to AddChildNode
PlaceSibling(m, text) ==
    LET selectedNode == GetSelectedNode(m)
        id == ToString(m.NextID)
        verticalSpacing == FP(3)
        x == selectedNode.X
        y == selectedNode.Y + FP(selectedNode.Height) + verticalSpacing
        spaceNeeded == FP(newNodeHeight) + verticalSpacing
        pushed == pushDownNodesBelow(m.Nodes, y, spaceNeeded)
        color == SiblingColor(m)
        node == [NewNode(id, text, x, y) EXCEPT
                    !.ParentID = selectedNode.ParentID, !.Color = color]
        m1 == [m EXCEPT !.NextID = @ + 1,
                        !.Nodes = PutNode(pushed, id, node),
                        !.NextColorIndex =
                            IF selectedNode.ParentID = "0" THEN @ + 1 ELSE @]
        m2 == IF selectedNode.ParentID # ""
              THEN AddEdge(m1, selectedNode.ParentID, id)
              ELSE m1
    IN [m2 EXCEPT !.Selected = id, !.StatusMsg = "Created sibling node " \o id]

\* AddSiblingNode without "Root node can't have siblings"
AddSiblingNodeOfAnyNode(m, text) ==
    IF ~HasSelectedNode(m) THEN AddChildNode(m, text) ELSE PlaceSibling(m, text)

AddSiblingNode(m, text) ==
    IF ~HasSelectedNode(m) THEN AddChildNode(m, text)
    ELSE IF GetSelectedNode(m).ID = "0" THEN AddChildNode(m, text)
    ELSE PlaceSibling(m, text)

\* the edges DeleteNode keeps
RECURSIVE EdgesWithout(_, _)
EdgesWithout(edges, id) ==
    IF edges = <<>> THEN <<>>
    ELSE IF Head(edges).FromID # id /\ Head(edges).ToID # id
         THEN <<Head(edges)>> \o EdgesWithout(Tail(edges), id)
         ELSE EdgesWithout(Tail(edges), id)

\* the identities "for nodeID := range m.Nodes { ...; break }" may pick
FirstKeys(nodes) == DOMAIN nodes

\* a DeleteNode that hands the identity out again when it was the last one
\* handed out
DeleteNodeReleasingID(m, id, first) ==
    IF id = "0" THEN [m EXCEPT !.StatusMsg = "Cannot delete root node"]
    ELSE
    LET nodes == [k \in DOMAIN m.Nodes \ {id} |-> m.Nodes[k]]
    IN [m EXCEPT !.Nodes = nodes,
                 !.Edges = EdgesWithout(@, id),
                 !.Selected = IF @ = id
                              THEN (IF DOMAIN nodes = {} THEN "" ELSE first)
                              ELSE @,
                 !.NextID = IF ToString(@ - 1) = id THEN @ - 1 ELSE @,
                 !.StatusMsg = "Deleted node " \o id]

\* DeleteNode(id); first is the key its selection loop visits first
DeleteNode(m, id, first) ==
    IF id = "0" THEN [m EXCEPT !.StatusMsg = "Cannot delete root node"]
    ELSE
    LET nodes == [k \in DOMAIN m.Nodes \ {id} |-> m.Nodes[k]]
    IN [m EXCEPT !.Nodes = nodes,
                 !.Edges = EdgesWithout(@, id),
                 !.Selected = IF @ = id
                              THEN (IF DOMAIN nodes = {} THEN "" ELSE first)
                              ELSE @,
                 !.StatusMsg = "Deleted node " \o id]

-----------------------------------------------------------------------------
(* Selection (update.go) *)

\* selectNextNode collects the keys into ids in map order and selects
\* ids[(currentIdx + 1) % len(ids)], where currentIdx is the position of
\* Selected in ids, or -1.  Over all orders of ids: a missing Selected gives
\* ids[0], any key; a single key gives that key; otherwise the key after
\* Selected, which is any other key.
selectNextChoices(keys, sel) ==
    IF sel \notin keys THEN keys
    ELSE IF Cardinality(keys) = 1 THEN keys
    ELSE keys \ {sel}

\* selectPrevNode selects ids[currentIdx - 1], or the last of ids when that
\* index is negative (Selected first in ids, or missing).
selectPrevChoices(keys, sel) ==
    IF sel \notin keys THEN keys
    ELSE IF Cardinality(keys) = 1 THEN keys
    ELSE keys \ {sel}

\* GetCenter, doubled so that Width/2 and Height/2 stay whole
Center2X(n) == 2 * n.X + FP(n.Width)
Center2Y(n) == 2 * n.Y + FP(n.Height)

\* the candidates of selectNodeInDirection that lie in direction (dx, dy)
InDirection(m, dx, dy) ==
    LET cur == GetSelectedNode(m) IN
    {k \in DOMAIN m.Nodes :
        /\ m.Nodes[k].ID # m.Selected
        /\ LET relX == Center2X(m.Nodes[k]) - Center2X(cur)
               relY == Center2Y(m.Nodes[k]) - Center2Y(cur)
           IN IF dx # 0
              THEN (dx > 0 /\ relX > 0) \/ (dx < 0 /\ relX < 0)
              ELSE dy # 0 /\ ((dy > 0 /\ relY > 0) \/ (dy < 0 /\ relY < 0))}

\* score := secondaryDist*2.0 + primaryDist (in doubled units)
Score(m, k, dx, dy) ==
    LET cur == GetSelectedNode(m)
        relX == Center2X(m.Nodes[k]) - Center2X(cur)
        relY == Center2Y(m.Nodes[k]) - Center2Y(cur)
    IN IF dx # 0 THEN Abs(relY) * 2 + Abs(relX) ELSE Abs(relX) * 2 + Abs(relY)

\* selectNodeInDirection that takes any node in the direction
BestNodesUnscored(m, dx, dy) == InDirection(m, dx, dy)

\* the nodes the loop can end with as bestNode: a strictly lower score
\* replaces the best so far, so the first visited of the minimal ones wins
BestNodes(m, dx, dy) ==
    {k \in InDirection(m, dx, dy) :
        \A j \in InDirection(m, dx, dy) : Score(m, k, dx, dy) <= Score(m, j, dx, dy)}

\* selectNodeInDirection that clears the status even when it selects nothing
selectNodeInDirectionClearingStatus(m, dx, dy, bestNode) ==
    IF ~HasSelectedNode(m) THEN [m EXCEPT !.StatusMsg = ""]
    ELSE IF BestNodes(m, dx, dy) = {} THEN [m EXCEPT !.StatusMsg = ""]
    ELSE [m EXCEPT !.Selected = m.Nodes[bestNode].ID, !.StatusMsg = ""]

\* selectNodeInDirection(dx, dy); bestNode is the key the loop ends with
selectNodeInDirection(m, dx, dy, bestNode) ==
    IF ~HasSelectedNode(m) THEN m
    ELSE IF BestNodes(m, dx, dy) = {} THEN m
    ELSE [m EXCEPT !.Selected = m.Nodes[bestNode].ID, !.StatusMsg = ""]

-----------------------------------------------------------------------------
(* Persistence (persistence.go) *)

NoFile == <<>>

\* a mindmap.json that json.Unmarshal rejects
BrokenFile == [SyntaxError |-> "invalid character 'x' looking for beginning of value"]

\* json.Unmarshal(jsonData, &data) returns no error
Unmarshals(data) == "SyntaxError" \notin DOMAIN data

\* the save that writes no edges
SaveDataWithoutEdges(m) ==
    [Nodes |-> m.Nodes, Edges |-> <<>>,
     Camera |-> [X |-> m.Camera.X, Y |-> m.Camera.Y, Zoom |-> m.Camera.Zoom]]

\* json.MarshalIndent(MindMapData{Nodes, Edges, Camera}): the camera targets
\* are tagged json:"-" and are not written
SaveData(m) ==
    [Nodes |-> m.Nodes, Edges |-> m.Edges,
     Camera |-> [X |-> m.Camera.X, Y |-> m.Camera.Y, Zoom |-> m.Camera.Zoom]]

\* identities fmt.Sscanf(id, "%d", &numID) reads as a number, up to MaxScan
MaxScan == 12
ScanOK(id) == \E n \in 0..MaxScan : ToString(n) = id
ScanInt(id) == CHOOSE n \in 0..MaxScan : ToString(n) = id

RECURSIVE MaxNumID(_, _)
MaxNumID(ids, maxID) ==
    IF ids = {} THEN maxID
    ELSE LET id == CHOOSE i \in ids : TRUE
         IN MaxNumID(ids \ {id},
                     IF ScanOK(id) /\ ScanInt(id) > maxID THEN ScanInt(id) ELSE maxID)

\* the load without the reseeding of NextID
LoadFromFileKeepingNextID(m, data, first) ==
    [m EXCEPT
        !.Nodes = data.Nodes,
        !.Edges = data.Edges,
        !.Camera = [X |-> data.Camera.X, Y |-> data.Camera.Y, Zoom |-> data.Camera.Zoom,
                    TargetX |-> data.Camera.X, TargetY |-> data.Camera.Y,
                    TargetZoom |-> data.Camera.Zoom],
        !.Selected = IF @ = "" /\ DOMAIN data.Nodes # {} THEN first ELSE @]

\* the load that leaves the camera targets where they were
LoadFromFileKeepingTargets(m, data, first) ==
    [m EXCEPT
        !.Nodes = data.Nodes,
        !.Edges = data.Edges,
        !.Camera = [@ EXCEPT !.X = data.Camera.X, !.Y = data.Camera.Y,
                             !.Zoom = data.Camera.Zoom],
        !.Selected = IF @ = "" /\ DOMAIN data.Nodes # {} THEN first ELSE @,
        !.NextID = MaxNumID(DOMAIN data.Nodes, 0) + 1]

\* LoadFromFile after a successful read and parse of data; first is the key
\* its selection loop visits first
LoadFromFile(m, data, first) ==
    [m EXCEPT
        !.Nodes = data.Nodes,
        !.Edges = data.Edges,
        !.Camera = [X |-> data.Camera.X, Y |-> data.Camera.Y, Zoom |-> data.Camera.Zoom,
                    TargetX |-> data.Camera.X, TargetY |-> data.Camera.Y,
                    TargetZoom |-> data.Camera.Zoom],
        !.Selected = IF @ = "" /\ DOMAIN data.Nodes # {} THEN first ELSE @,
        !.NextID = MaxNumID(DOMAIN data.Nodes, 0) + 1]

-----------------------------------------------------------------------------
(* Rendering (renderer.go).  A grid maps <<row, column>> to a cell; By is
   not a field of ColoredCell: it records which painter wrote the cell last.
   The runes are named: the rasterizer's '─' '│' '╱' '╲' '·' are "-" "|" "/"
   "\\" ".", and the boxes' are "top", "left", "topLeft", ... with "bold" in
   front for the selected node's. *)

Blank == [Char |-> " ", Color |-> "", By |-> ""]

\* grid := make([][]ColoredCell, m.Height-1), every cell {' ', ""}
NewGrid(width, height) == [p \in (0..(height - 2)) \X (0..(width - 1)) |-> Blank]

getLineChar(dx, dy) ==
    IF dx = 0 /\ dy = 0 THEN "."
    ELSE IF Abs(dx) > Abs(dy) * 2 THEN "-"
    ELSE IF Abs(dy) > Abs(dx) * 2 THEN "|"
    ELSE IF (dx > 0 /\ dy < 0) \/ (dx < 0 /\ dy > 0) THEN "/"
    ELSE "\\"

\* a plot that does not look at the cell it writes
PlotOver(grid, x, y, dx, dy, color) ==
    IF <<y, x>> \in DOMAIN grid
    THEN [grid EXCEPT ![<<y, x>>] =
            [Char |-> getLineChar(dx, dy), Color |-> color, By |-> "edge"]]
    ELSE grid

\* "Plot point if within bounds": only a cell that holds ' ' is written
Plot(grid, x, y, dx, dy, color) ==
    IF <<y, x>> \in DOMAIN grid
    THEN IF grid[<<y, x>>].Char = " "
         THEN [grid EXCEPT ![<<y, x>>] =
                 [Char |-> getLineChar(dx, dy), Color |-> color, By |-> "edge"]]
         ELSE grid
    ELSE grid

\* a pass of the loop that moves along x when e2 is under absDy
BresenhamStepUnsigned(x1, y1, err, dx, dy) ==
    LET absDx == Abs(dx)
        absDy == Abs(dy)
        sx == IF dx > 0 THEN 1 ELSE -1
        sy == IF dy > 0 THEN 1 ELSE -1
        e2 == 2 * err
        stepX == e2 < absDy
        stepY == e2 < absDx
    IN [x |-> IF stepX THEN x1 + sx ELSE x1,
        y |-> IF stepY THEN y1 + sy ELSE y1,
        err |-> err - (IF stepX THEN absDy ELSE 0) + (IF stepY THEN absDx ELSE 0)]

\* one pass of the "for" loop of drawLineSegment at (x1, y1) with error term
\* err: the point and the error term it moves to; dx and dy are those of
\* the whole segment
BresenhamStep(x1, y1, err, dx, dy) ==
    LET absDx == Abs(dx)
        absDy == Abs(dy)
        sx == IF dx > 0 THEN 1 ELSE -1
        sy == IF dy > 0 THEN 1 ELSE -1
        e2 == 2 * err
        stepX == e2 > -absDy
        stepY == e2 < absDx
    IN [x |-> IF stepX THEN x1 + sx ELSE x1,
        y |-> IF stepY THEN y1 + sy ELSE y1,
        err |-> err - (IF stepX THEN absDy ELSE 0) + (IF stepY THEN absDx ELSE 0)]

\* the "for" loop of drawLineSegment, from (x1, y1) with error term err
RECURSIVE Bresenham(_, _, _, _, _, _, _, _, _)
Bresenham(grid, x1, y1, x2, y2, err, dx, dy, color) ==
    IF x1 = x2 /\ y1 = y2 THEN grid
    ELSE LET n == BresenhamStep(x1, y1, err, dx, dy)
         IN Bresenham(Plot(grid, n.x, n.y, dx, dy, color), n.x, n.y, x2, y2, n.err, dx, dy, color)

\* the points the loop moves to, in order, over its first `passes` passes
RECURSIVE BresenhamCells(_, _, _, _, _, _, _, _)
BresenhamCells(x1, y1, x2, y2, err, dx, dy, passes) ==
    IF (x1 = x2 /\ y1 = y2) \/ passes = 0 THEN <<>>
    ELSE LET n == BresenhamStep(x1, y1, err, dx, dy)
         IN <<[x |-> n.x, y |-> n.y]>> \o
            BresenhamCells(n.x, n.y, x2, y2, n.err, dx, dy, passes - 1)

\* the points drawLineSegment visits after its start point
drawLineSegmentCells(x1, y1, x2, y2, passes) ==
    BresenhamCells(x1, y1, x2, y2, Abs(x2 - x1) - Abs(y2 - y1), x2 - x1, y2 - y1, passes)

drawLineSegment(grid, x1, y1, x2, y2, color) ==
    LET dx == x2 - x1
        dy == y2 - y1
        start == Plot(grid, x1, y1, dx, dy, color)
    IN IF x1 = x2 /\ y1 = y2 THEN start
       ELSE Bresenham(start, x1, y1, x2, y2, Abs(dx) - Abs(dy), dx, dy, color)

\* the largest r in lo..hi-1 with r*r <= n
RECURSIVE IsqrtIn(_, _, _)
IsqrtIn(n, lo, hi) ==
    IF hi - lo <= 1 THEN lo
    ELSE LET mid == (lo + hi) \div 2
         IN IF mid * mid <= n THEN IsqrtIn(n, mid, hi) ELSE IsqrtIn(n, lo, mid)

\* int(math.Sqrt(n)) of an integer n
Isqrt(n) == IsqrtIn(n, 0, 46341)

\* the largest integer that is at most 2*b*sqrt(n), n >= 0
Floor2Surd(b, n) ==
    LET m == b * b * n
        r == Isqrt(m)
        up == IF m - r * r <= r THEN 2 * r ELSE 2 * r + 1
    IN IF b >= 0 THEN up
       ELSE IF r * r = m THEN -(2 * r)
       ELSE -(up + 1)

\* math.Round((a + b*sqrt(n)) / d), d > 0: halves away from zero
RoundSurd(a, b, n, d) ==
    LET half(aa, bb) == (2 * aa + d + Floor2Surd(bb, n)) \div (2 * d)
    IN IF 2 * a + Floor2Surd(b, n) >= 0 THEN half(a, b) ELSE -half(-a, -b)

\* one coordinate of the point of the cubic Bezier curve at t = i/steps, as
\* math.Round gives it: the end points are a1 and a2 and the control points
\* a1 + sign*cpOffset and a2 - sign*cpOffset, cpOffset = min(0.4*dist, 30)
\* and dist = sqrt(d2)
BezierCoord(a1, a2, i, steps, sign, d2) ==
    LET omt == steps - i
        p == (omt * omt * omt + 3 * omt * omt * i) * a1
             + (3 * omt * i * i + i * i * i) * a2
        c == sign * (3 * omt * omt * i - 3 * omt * i * i)
        d == steps * steps * steps
    IN IF 4 * d2 < 150 * 150
       THEN RoundSurd(5 * p, 2 * c, d2, 5 * d)
       ELSE Round(p + 30 * c, d)

\* the "for i := 0; i <= steps; i++" loop of drawLine, from sample i
RECURSIVE BezierFrom(_, _, _, _, _, _, _, _, _)
BezierFrom(grid, i, prevX, prevY, x1, y1, x2, y2, color) ==
    LET dx == x2 - x1
        dy == y2 - y1
        d2 == dx * dx + dy * dy
        dist2 == Isqrt(4 * d2)
        steps == IF dist2 < 10 THEN 10 ELSE dist2
        vertical == Abs(dy) > Abs(dx)
        curX == BezierCoord(x1, x2, i, steps, IF vertical THEN 0 ELSE 1, d2)
        curY == BezierCoord(y1, y2, i, steps,
                            IF vertical THEN (IF dy < 0 THEN -1 ELSE 1) ELSE 0, d2)
    IN IF i > steps THEN grid
       ELSE BezierFrom(drawLineSegment(grid, prevX, prevY, curX, curY, color),
                       i + 1, curX, curY, x1, y1, x2, y2, color)

drawLine(grid, x1, y1, x2, y2, color) ==
    BezierFrom(grid, 0, x1, y1, x1, y1, x2, y2, color)

\* Node.GetCenter
GetCenter(n) == [x |-> n.X + FP(n.Width) \div 2, y |-> n.Y + FP(n.Height) \div 2]

\* connection points at the centres of the two nodes
CentrePoints(from, to) ==
    <<GetCenter(from).x, GetCenter(from).y, GetCenter(to).x, GetCenter(to).y>>

\* the connection points fx, fy, tx, ty that drawEdge picks, in the world
ConnectionPoints(from, to) ==
    LET fromCX == GetCenter(from).x
        fromCY == GetCenter(from).y
        toCX == GetCenter(to).x
        toCY == GetCenter(to).y
    IN IF toCX > fromCX
       THEN <<from.X + FP(from.Width), fromCY, to.X, toCY>>
       ELSE IF toCX < fromCX
       THEN <<from.X, fromCY, to.X + FP(to.Width), toCY>>
       ELSE IF toCY > fromCY
       THEN <<fromCX, from.Y + FP(from.Height), toCX, to.Y>>
       ELSE <<fromCX, from.Y, toCX, to.Y + FP(to.Height)>>

\* drawEdge; screenHeight is m.Height-1
drawEdge(grid, c, from, to, screenWidth, screenHeight) ==
    LET ends == ConnectionPoints(from, to)
        s1 == WorldToScreen(c, Rat(ends[1]), Rat(ends[2]), screenWidth, screenHeight)
        s2 == WorldToScreen(c, Rat(ends[3]), Rat(ends[4]), screenWidth, screenHeight)
    IN drawLine(grid, s1[1], s1[2], s2[1], s2[2], to.Color)

\* a loop body that takes the root for an end that is missing
drawEdgeAtFromRoot(grid, m, i, screenWidth, screenHeight) ==
    LET edge == m.Edges[i]
        end(id) == IF id \in DOMAIN m.Nodes THEN m.Nodes[id] ELSE m.Nodes["0"]
    IN drawEdge(grid, m.Camera, end(edge.FromID), end(edge.ToID), screenWidth, screenHeight)

\* the body of the loop of drawEdges for the edge at index i
drawEdgeAt(grid, m, i, screenWidth, screenHeight) ==
    LET edge == m.Edges[i]
    IN IF edge.FromID \in DOMAIN m.Nodes /\ edge.ToID \in DOMAIN m.Nodes
       THEN drawEdge(grid, m.Camera, m.Nodes[edge.FromID], m.Nodes[edge.ToID],
                     screenWidth, screenHeight)
       ELSE grid

\* where drawNode puts a node: its corner on the screen and its zoomed size
NodeBox(c, node, screenWidth, screenHeight) ==
    LET s == WorldToScreen(c, Rat(node.X), Rat(node.Y), screenWidth, screenHeight)
    IN [sx |-> s[1], sy |-> s[2],
        width |-> Trunc(node.Width * c.Zoom, Scale),
        height |-> Trunc(node.Height * c.Zoom, Scale)]

\* drawNode returns at once: the top row of the node is off the grid
NodeOffGrid(box, screenHeight) == box.sy >= screenHeight \/ box.sy < 0

\* "Don't render if too small"
NodeTooSmall(box) == box.width < 3 \/ box.height < 2

\* text = text[:maxRenderWidth] fails (a slice bound below 0 is a run-time
\* panic): drawNode comes to a row of text that is on the grid (y < 0 does
\* not occur, sy being at least 0) when maxRenderWidth, width - 4, is
\* negative; len(text) is then greater than it whatever the line holds
drawNodePanics(node, box, screenHeight) ==
    /\ ~NodeOffGrid(box, screenHeight)
    /\ ~NodeTooSmall(box)
    /\ box.width - 4 < 0
    /\ \E i \in 1..(box.height - 2) :
          /\ box.sy + i < screenHeight
          /\ i - 1 < Len(wrapText(node.Text, 22))

\* what drawNode leaves in the cell <<y, x>>, the last of its writes there;
\* "" if it writes none
NodeGlyph(node, isSelected, box, x, y) ==
    LET sx == box.sx
        sy == box.sy
        right == sx + box.width - 1
        bottom == sy + box.height - 1
        bold == IF isSelected THEN "bold " ELSE ""
        lines == wrapText(node.Text, 22)
        lineIdx == y - sy
        text == IF lineIdx >= 1 /\ lineIdx <= Len(lines) THEN lines[lineIdx] ELSE <<>>
        shown == IF Len(text) > box.width - 4 THEN box.width - 4 ELSE Len(text)
    IN IF NodeTooSmall(box)
       THEN (IF x = sx /\ y = sy THEN "dot" ELSE "")
       ELSE IF y = bottom /\ x >= sx /\ x <= right
       THEN (IF x = right THEN bold \o "bottomRight"
             ELSE IF x = sx THEN bold \o "bottomLeft"
             ELSE bold \o "bottom")
       ELSE IF y > sy /\ y < bottom /\ x >= sx /\ x <= right
       THEN (IF x = right THEN bold \o "right"
             ELSE IF x = right - 1 THEN " "
             ELSE IF x >= sx + 2 /\ x < sx + 2 + shown THEN text[x - sx - 1]
             ELSE IF x = sx + 1 THEN " "
             ELSE IF x = sx THEN bold \o "left"
             ELSE "")
       ELSE IF y = sy /\ x >= sx /\ x <= right
       THEN (IF x = right THEN bold \o "topRight"
             ELSE IF x = sx THEN bold \o "topLeft"
             ELSE bold \o "top")
       ELSE IF isSelected /\ y = sy /\ x = sx - 2 THEN "indicator"
       ELSE ""

\* the padding cells are written {' ', ""}, every other cell in the node's
\* colour
drawNode(grid, c, node, isSelected, screenWidth, screenHeight) ==
    LET box == NodeBox(c, node, screenWidth, screenHeight)
    IN IF NodeOffGrid(box, screenHeight) THEN grid
       ELSE [p \in DOMAIN grid |->
               LET glyph == NodeGlyph(node, isSelected, box, p[2], p[1])
                   padding == /\ ~NodeTooSmall(box)
                              /\ p[1] > box.sy /\ p[1] < box.sy + box.height - 1
                              /\ p[2] \in {box.sx + 1, box.sx + box.width - 2}
               IN IF glyph = "" THEN grid[p]
                  ELSE [Char |-> glyph,
                        Color |-> IF padding THEN "" ELSE node.Color,
                        By |-> "node"]]

-----------------------------------------------------------------------------
(* Initial state: NewModel() *)

\* View not called yet
NoView == [phase |-> "idle"]

\* no conversion asked for yet
NoProbe ==
    [fn |-> "", screenWidth |-> 0, screenHeight |-> 0,
     sx |-> 0, sy |-> 0, wx |-> <<0, 1>>, wy |-> <<0, 1>>]

\* NewModel() but for the camera
InitDoc ==
    /\ Nodes = [k \in {"0"} |-> NewNode("0", RootText, 0, 0)]
    /\ Edges = <<>>
    /\ Selected = "0"
    /\ Mode = "normal"
    /\ EditBuffer = <<>>
    /\ IsCreatingNode = FALSE
    /\ IsCreatingChild = FALSE
    /\ NextID = 1
    /\ StatusMsg = ""
    /\ LinkSourceID = ""
    /\ NextColorIndex = 0
    /\ lastOp = ""
    /\ zoomOps = 0
    /\ panOps = 0
    /\ ticks = 0
    /\ createdUnderRoot = 0
    /\ loads = 0
    /\ cycleRun = <<>>
    /\ probe = NoProbe
    /\ saved = <<>>
    /\ view = NoView

InitModel == InitDoc /\ Camera = NewCamera

Init == InitModel /\ file = NoFile

\* the fields a method of *Model leaves in m2
SetModel(m2) ==
    /\ Nodes' = m2.Nodes
    /\ Edges' = m2.Edges
    /\ Camera' = m2.Camera
    /\ Selected' = m2.Selected
    /\ NextID' = m2.NextID
    /\ StatusMsg' = m2.StatusMsg
    /\ NextColorIndex' = m2.NextColorIndex

-----------------------------------------------------------------------------
(* handleNormalMode, one action per key *)

\* the arrow keys and the directions they pass
Directions == {<<0, -1>>, <<0, 1>>, <<-1, 0>>, <<1, 0>>}
DirKey(dx, dy) ==
    IF dx > 0 THEN "right" ELSE IF dx < 0 THEN "left" ELSE IF dy > 0 THEN "down" ELSE "up"
DirOp(dx, dy) == "selectNodeInDirection " \o DirKey(dx, dy)

\* "up", "down", "left", "right"
KeyArrow(dx, dy) ==
    /\ Mode = "normal"
    /\ LET best == IF HasSelectedNode(M) THEN BestNodes(M, dx, dy) ELSE {}
       IN \E bestNode \in best \cup {""} :
             /\ bestNode \in best \/ best = {}
             /\ SetModel(selectNodeInDirection(M, dx, dy, bestNode))
    /\ lastOp' = DirOp(dx, dy)
    /\ UNCHANGED file
    /\ UNCHANGED uiVars
    /\ UNCHANGED histVars

KeyArrows ==
    \E d \in Directions : KeyArrow(d[1], d[2])

\* panSpeed := 5.0 / m.Camera.Zoom
panSpeed == (FP(5) * Scale) \div Camera.Zoom

\* "w" "k" / "s" "j" / "a" "h" / "d" "l"
KeyPan(sx, sy) ==
    /\ Mode = "normal"
    /\ panOps < MaxPanOps
    /\ panOps' = panOps + 1
    /\ Camera' = Pan(Camera, sx * panSpeed, sy * panSpeed)
    /\ StatusMsg' = ""
    /\ lastOp' = "Pan"
    /\ UNCHANGED <<Nodes, Edges, Selected, NextID, NextColorIndex, file, zoomOps, ticks,
                   createdUnderRoot, loads, cycleRun, probe, saved, view>>
    /\ UNCHANGED uiVars

KeyPans ==
    \E d \in {<<0, -1>>, <<0, 1>>, <<-1, 0>>, <<1, 0>>} : KeyPan(d[1], d[2])

\* "+", "="
KeyZoomIn ==
    /\ Mode = "normal"
    /\ zoomOps < MaxZoomOps
    /\ zoomOps' = zoomOps + 1
    /\ Camera' = ZoomIn(Camera)
    /\ StatusMsg' = ""
    /\ lastOp' = "ZoomIn"
    /\ UNCHANGED <<Nodes, Edges, Selected, NextID, NextColorIndex, file, panOps, ticks,
                   createdUnderRoot, loads, cycleRun, probe, saved, view>>
    /\ UNCHANGED uiVars

\* "-", "_"
KeyZoomOut ==
    /\ Mode = "normal"
    /\ zoomOps < MaxZoomOps
    /\ zoomOps' = zoomOps + 1
    /\ Camera' = ZoomOut(Camera)
    /\ StatusMsg' = ""
    /\ lastOp' = "ZoomOut"
    /\ UNCHANGED <<Nodes, Edges, Selected, NextID, NextColorIndex, file, panOps, ticks,
                   createdUnderRoot, loads, cycleRun, probe, saved, view>>
    /\ UNCHANGED uiVars

\* "0"
KeyCameraReset ==
    /\ Mode = "normal"
    /\ Camera' = NewCamera
    /\ StatusMsg' = "Camera reset"
    /\ lastOp' = "NewCamera"
    /\ UNCHANGED <<Nodes, Edges, Selected, NextID, NextColorIndex, file>>
    /\ UNCHANGED uiVars
    /\ UNCHANGED histVars

\* "enter": begin a sibling; room bounds the number of nodes of the model
KeyEnter(room) ==
    /\ Mode = "normal"
    /\ room
    /\ Mode' = "edit"
    /\ EditBuffer' = <<>>
    /\ IsCreatingNode' = TRUE
    /\ IsCreatingChild' = FALSE
    /\ StatusMsg' = "New sibling: type text and press Enter"
    /\ lastOp' = ""
    /\ UNCHANGED <<Nodes, Edges, Camera, Selected, NextID, NextColorIndex, LinkSourceID,
                   file>>
    /\ UNCHANGED histVars

\* "tab": begin a child
KeyTab(room) ==
    /\ Mode = "normal"
    /\ room
    /\ Mode' = "edit"
    /\ EditBuffer' = <<>>
    /\ IsCreatingNode' = TRUE
    /\ IsCreatingChild' = TRUE
    /\ StatusMsg' = "New child: type text and press Enter"
    /\ lastOp' = ""
    /\ UNCHANGED <<Nodes, Edges, Camera, Selected, NextID, NextColorIndex, LinkSourceID,
                   file>>
    /\ UNCHANGED histVars

\* "e": begin editing the selected node
KeyE ==
    /\ Mode = "normal"
    /\ HasSelectedNode(M)
    /\ Mode' = "edit"
    /\ EditBuffer' = GetSelectedNode(M).Text
    /\ IsCreatingNode' = FALSE
    /\ StatusMsg' = "Edit node text (ESC to cancel, Enter to save)"
    /\ lastOp' = ""
    /\ UNCHANGED <<Nodes, Edges, Camera, Selected, NextID, NextColorIndex, LinkSourceID,
                   IsCreatingChild, file>>
    /\ UNCHANGED histVars

\* "x", "delete", "backspace"
KeyDelete ==
    /\ Mode = "normal"
    /\ Selected # ""
    /\ \E first \in FirstKeys(Nodes) \cup {""} :
          /\ first \in DOMAIN Nodes \ {Selected} \/ DOMAIN Nodes \ {Selected} = {}
          /\ SetModel(DeleteNode(M, Selected, first))
    /\ lastOp' = "DeleteNode"
    /\ UNCHANGED file
    /\ UNCHANGED uiVars
    /\ UNCHANGED histVars

\* "L"; the model begins a link only while fewer than MaxEdges edges exist
KeyL ==
    /\ Mode = "normal"
    /\ Selected # ""
    /\ Len(Edges) < MaxEdges
    /\ Mode' = "link"
    /\ LinkSourceID' = Selected
    /\ StatusMsg' = "Select target node (ESC to cancel)"
    /\ lastOp' = ""
    /\ UNCHANGED <<Nodes, Edges, Camera, Selected, NextID, NextColorIndex, EditBuffer,
                   IsCreatingNode, IsCreatingChild, file>>
    /\ UNCHANGED histVars

\* the state change of selectNextNode / selectPrevNode
SelectCycle(choices) ==
    /\ DOMAIN Nodes # {}
    /\ \E k \in choices : Selected' = k
    /\ StatusMsg' = ""
    /\ UNCHANGED <<Nodes, Edges, Camera, NextID, NextColorIndex, file>>
    /\ UNCHANGED uiVars
    /\ UNCHANGED histVars

\* "]"
KeyNext ==
    /\ Mode = "normal"
    /\ SelectCycle(selectNextChoices(DOMAIN Nodes, Selected))
    /\ lastOp' = "selectNextNode"

\* "]" with the run of consecutive "]" presses recorded: the run is extended
\* while the last event was "]" and it is no longer than the node count,
\* and begun anew otherwise
KeyNextRun ==
    /\ Mode = "normal"
    /\ DOMAIN Nodes # {}
    /\ \E k \in selectNextChoices(DOMAIN Nodes, Selected) : Selected' = k
    /\ StatusMsg' = ""
    /\ lastOp' = "selectNextNode"
    /\ cycleRun' = IF /\ lastOp = "selectNextNode"
                      /\ cycleRun # <<>>
                      /\ Len(cycleRun) <= Cardinality(DOMAIN Nodes)
                   THEN Append(cycleRun, Selected')
                   ELSE <<Selected, Selected'>>
    /\ UNCHANGED <<Nodes, Edges, Camera, NextID, NextColorIndex, file>>
    /\ UNCHANGED uiVars
    /\ UNCHANGED <<zoomOps, panOps, ticks, createdUnderRoot, loads, probe, saved, view>>

\* "["
KeyPrev ==
    /\ Mode = "normal"
    /\ SelectCycle(selectPrevChoices(DOMAIN Nodes, Selected))
    /\ lastOp' = "selectPrevNode"

\* "c": centre the camera target on the selected node
KeyCenter ==
    /\ Mode = "normal"
    /\ HasSelectedNode(M)
    /\ Camera' = [Camera EXCEPT !.TargetX = Center2X(GetSelectedNode(M)) \div 2,
                                !.TargetY = Center2Y(GetSelectedNode(M)) \div 2]
    /\ StatusMsg' = "Centered on node"
    /\ lastOp' = "Center"
    /\ UNCHANGED <<Nodes, Edges, Selected, NextID, NextColorIndex, file>>
    /\ UNCHANGED uiVars
    /\ UNCHANGED histVars

\* "ctrl+s", the write succeeds
KeySave ==
    /\ Mode = "normal"
    /\ file' = <<SaveData(M)>>
    /\ StatusMsg' = "Saved to mindmap.json"
    /\ lastOp' = "SaveToFile"
    /\ saved' = <<[Nodes |-> Nodes, Edges |-> Edges]>>
    /\ UNCHANGED <<Nodes, Edges, Camera, Selected, NextID, NextColorIndex>>
    /\ UNCHANGED uiVars
    /\ UNCHANGED <<zoomOps, panOps, ticks, createdUnderRoot, loads, cycleRun, probe, view>>

\* "ctrl+o", the file is read and parsed
KeyLoad ==
    /\ Mode = "normal"
    /\ file # NoFile
    /\ Unmarshals(file[1])
    /\ loads < MaxLoads
    /\ loads' = loads + 1
    /\ \E first \in DOMAIN file[1].Nodes \cup {""} :
          /\ first \in DOMAIN file[1].Nodes \/ DOMAIN file[1].Nodes = {}
          /\ SetModel([LoadFromFile(M, file[1], first) EXCEPT
                          !.StatusMsg = "Loaded from mindmap.json"])
    /\ lastOp' = "LoadFromFile"
    /\ UNCHANGED file
    /\ UNCHANGED uiVars
    /\ UNCHANGED <<zoomOps, panOps, ticks, createdUnderRoot, cycleRun, probe, saved, view>>

\* os.ReadFile or json.Unmarshal returns an error: mindmap.json is missing
\* or does not parse
LoadFails == IF file = NoFile THEN TRUE ELSE ~Unmarshals(file[1])

\* the error of a load that fails
LoadError ==
    IF file = NoFile THEN "open mindmap.json: no such file or directory"
    ELSE file[1].SyntaxError

\* a failing load that has selected nothing
KeyLoadErrorDroppingSelection ==
    /\ Mode = "normal"
    /\ LoadFails
    /\ StatusMsg' = "Error loading: " \o LoadError
    /\ Selected' = ""
    /\ lastOp' = "LoadFromFile"
    /\ UNCHANGED <<Nodes, Edges, Camera, NextID, NextColorIndex, file>>
    /\ UNCHANGED uiVars
    /\ UNCHANGED histVars

\* "ctrl+o", os.ReadFile or json.Unmarshal fails
KeyLoadError ==
    /\ Mode = "normal"
    /\ LoadFails
    /\ StatusMsg' = "Error loading: " \o LoadError
    /\ lastOp' = "LoadFromFile"
    /\ UNCHANGED <<Nodes, Edges, Camera, Selected, NextID, NextColorIndex, file>>
    /\ UNCHANGED uiVars
    /\ UNCHANGED histVars

-----------------------------------------------------------------------------
(* handleEditMode *)

IsPrefix(p, t) == Len(p) <= Len(t) /\ SubSeq(t, 1, Len(p)) = p

\* a one-character key: the buffer grows by it.  The user types one of the
\* texts of `scripts`, so the buffer stays a prefix of one of them.
EditChar(scripts) ==
    /\ Mode = "edit"
    /\ \E c \in {"a", " "} :
          /\ \E t \in scripts : IsPrefix(Append(EditBuffer, c), t)
          /\ EditBuffer' = Append(EditBuffer, c)
    /\ lastOp' = ""
    /\ UNCHANGED <<Camera, Mode, IsCreatingNode, IsCreatingChild, LinkSourceID, file>>
    /\ UNCHANGED docVars
    /\ UNCHANGED histVars

\* "backspace"; the user deletes only what leaves a prefix of a text of
\* `scripts`
EditBackspace(scripts) ==
    /\ Mode = "edit"
    /\ Len(EditBuffer) > 0
    /\ \E t \in scripts : IsPrefix(SubSeq(EditBuffer, 1, Len(EditBuffer) - 1), t)
    /\ EditBuffer' = SubSeq(EditBuffer, 1, Len(EditBuffer) - 1)
    /\ lastOp' = ""
    /\ UNCHANGED <<Camera, Mode, IsCreatingNode, IsCreatingChild, LinkSourceID, file>>
    /\ UNCHANGED docVars
    /\ UNCHANGED histVars

\* an "esc" that uses up an identity
EditEscTakingID ==
    /\ Mode = "edit"
    /\ Mode' = "normal"
    /\ EditBuffer' = <<>>
    /\ IsCreatingNode' = FALSE
    /\ StatusMsg' = "Cancelled"
    /\ NextID' = NextID + 1
    /\ lastOp' = ""
    /\ UNCHANGED <<Nodes, Edges, Camera, Selected, NextColorIndex,
                   IsCreatingChild, LinkSourceID, file>>
    /\ UNCHANGED histVars

\* "esc"
EditEsc ==
    /\ Mode = "edit"
    /\ Mode' = "normal"
    /\ EditBuffer' = <<>>
    /\ IsCreatingNode' = FALSE
    /\ StatusMsg' = "Cancelled"
    /\ lastOp' = ""
    /\ UNCHANGED <<Nodes, Edges, Camera, Selected, NextID, NextColorIndex,
                   IsCreatingChild, LinkSourceID, file>>
    /\ UNCHANGED histVars

\* the edit without node.UpdateSize()
EditNodeTextKeepingSize(m, text) ==
    [m EXCEPT !.Nodes[m.Selected] = [@ EXCEPT !.Text = text],
              !.StatusMsg = "Node updated"]

\* node.Text = m.EditBuffer; node.UpdateSize(); "Node updated"
EditNodeText(m, text) ==
    [m EXCEPT !.Nodes[m.Selected] =
                  [@ EXCEPT !.Text = text,
                            !.Width = calculateNodeSize(text).Width,
                            !.Height = calculateNodeSize(text).Height],
              !.StatusMsg = "Node updated"]

\* the model "enter" leaves, before the mode fields are reset
EditConfirm(m) ==
    IF EditBuffer # <<>>
    THEN IF IsCreatingNode
         THEN IF IsCreatingChild
              THEN AddChildNode(m, EditBuffer)
              ELSE AddSiblingNode(m, EditBuffer)
         ELSE IF HasSelectedNode(m) THEN EditNodeText(m, EditBuffer) ELSE m
    ELSE m

\* the buffers the user confirms: nothing, a whole text of `scripts`, or
\* the unchanged text of the node being edited
Confirmable(scripts) ==
    \/ EditBuffer = <<>>
    \/ EditBuffer \in scripts
    \/ ~IsCreatingNode /\ HasSelectedNode(M) /\ EditBuffer = GetSelectedNode(M).Text

\* "enter"
EditEnter(scripts) ==
    /\ Mode = "edit"
    /\ Confirmable(scripts)
    /\ SetModel(EditConfirm(M))
    /\ Mode' = "normal"
    /\ EditBuffer' = <<>>
    /\ IsCreatingNode' = FALSE
    /\ IsCreatingChild' = FALSE
    /\ lastOp' = IF EditBuffer = <<>> THEN ""
                 ELSE IF ~IsCreatingNode THEN "EditText"
                 ELSE IF IsCreatingChild THEN "AddChildNode"
                 ELSE "AddSiblingNode"
    /\ createdUnderRoot' =
          IF NextID' = NextID + 1 /\ Nodes'[ToString(NextID)].ParentID = "0"
          THEN createdUnderRoot + 1
          ELSE createdUnderRoot
    /\ UNCHANGED <<LinkSourceID, file, zoomOps, panOps, ticks, loads, cycleRun, probe, saved, view>>

-----------------------------------------------------------------------------
(* handleLinkMode *)

\* "esc"
LinkEsc ==
    /\ Mode = "link"
    /\ Mode' = "normal"
    /\ LinkSourceID' = ""
    /\ StatusMsg' = "Link cancelled"
    /\ lastOp' = ""
    /\ UNCHANGED <<Nodes, Edges, Camera, Selected, NextID, NextColorIndex, EditBuffer,
                   IsCreatingNode, IsCreatingChild, file>>
    /\ UNCHANGED histVars

\* "tab"
LinkTab ==
    /\ Mode = "link"
    /\ SelectCycle(selectNextChoices(DOMAIN Nodes, Selected))
    /\ lastOp' = "selectNextNode"

\* "shift+tab"
LinkShiftTab ==
    /\ Mode = "link"
    /\ SelectCycle(selectPrevChoices(DOMAIN Nodes, Selected))
    /\ lastOp' = "selectPrevNode"

\* an "enter" that links a node to itself as well
LinkEnterOntoItself ==
    /\ Mode = "link"
    /\ IF Selected # "" /\ LinkSourceID # ""
       THEN SetModel(AddEdge(M, LinkSourceID, Selected)) /\ lastOp' = "AddEdge"
       ELSE UNCHANGED <<Nodes, Edges, Camera, Selected, NextID, StatusMsg, NextColorIndex>>
            /\ lastOp' = ""
    /\ Mode' = "normal"
    /\ LinkSourceID' = ""
    /\ UNCHANGED <<EditBuffer, IsCreatingNode, IsCreatingChild, file>>
    /\ UNCHANGED histVars

\* "enter"
LinkEnter ==
    /\ Mode = "link"
    /\ IF Selected # "" /\ LinkSourceID # "" /\ Selected # LinkSourceID
       THEN SetModel(AddEdge(M, LinkSourceID, Selected)) /\ lastOp' = "AddEdge"
       ELSE UNCHANGED <<Nodes, Edges, Camera, Selected, NextID, StatusMsg, NextColorIndex>>
            /\ lastOp' = ""
    /\ Mode' = "normal"
    /\ LinkSourceID' = ""
    /\ UNCHANGED <<EditBuffer, IsCreatingNode, IsCreatingChild, file>>
    /\ UNCHANGED histVars

-----------------------------------------------------------------------------
(* Update on a tickMsg: m.Camera.Update(0.25) *)

Tick ==
    /\ ticks < MaxTicks
    /\ ticks' = ticks + 1
    /\ Camera' = CameraUpdate(Camera)
    /\ lastOp' = "CameraUpdate"
    /\ UNCHANGED <<file, zoomOps, panOps, createdUnderRoot, loads, cycleRun, probe, saved, view>>
    /\ UNCHANGED docVars
    /\ UNCHANGED uiVars

\* a doTick command is outstanding: Update returns doTick() from its tickMsg
\* case only, and Model.Init returns nil, so a tick is outstanding exactly
\* when a tick has been handled before
TickOutstanding == ticks > 0

\* the runtime delivers the tickMsg of an outstanding doTick command; Update
\* moves the camera and returns doTick() again (the count of ticks is not
\* advanced past what it is)
TimerTick ==
    /\ TickOutstanding
    /\ Camera' = CameraUpdate(Camera)
    /\ lastOp' = "CameraUpdate"
    /\ UNCHANGED <<file, zoomOps, panOps, ticks, createdUnderRoot, loads, cycleRun, probe, saved, view>>
    /\ UNCHANGED docVars
    /\ UNCHANGED uiVars

\* the messages the runtime can hand to Update: the camera keys, and a tick
\* when one is outstanding
Delivered ==
    {"pan", "+", "-", "c"} \cup (IF TickOutstanding THEN {"tick"} ELSE {})

\* Update(msg): the switch on the message
Update(msg) ==
    IF msg = "tick" THEN TimerTick
    ELSE IF msg = "pan" THEN KeyPans
    ELSE IF msg = "+" THEN KeyZoomIn
    ELSE IF msg = "-" THEN KeyZoomOut
    ELSE KeyCenter

-----------------------------------------------------------------------------
(* The coordinate conversions, as GetNodeAt and drawNode call them *)

\* GetNodeAt(screenX, screenY): m.Camera.ScreenToWorld(screenX, screenY,
\* m.Width, m.Height), for a window of size viewport
AskScreenToWorld(viewport, sx, sy) ==
    /\ LET w == ScreenToWorld(Camera, sx, sy, viewport[1], viewport[2])
       IN probe' = [fn |-> "ScreenToWorld",
                    screenWidth |-> viewport[1], screenHeight |-> viewport[2],
                    sx |-> sx, sy |-> sy, wx |-> w[1], wy |-> w[2]]
    /\ lastOp' = "ScreenToWorld"
    /\ UNCHANGED <<Camera, file, zoomOps, panOps, ticks, createdUnderRoot, loads, cycleRun,
                   saved, view>>
    /\ UNCHANGED docVars
    /\ UNCHANGED uiVars

\* drawNode: m.Camera.WorldToScreen(x, y, width, height) of a world point
AskWorldToScreen(viewport, wx, wy) ==
    /\ LET sc == WorldToScreen(Camera, wx, wy, viewport[1], viewport[2])
       IN probe' = [fn |-> "WorldToScreen",
                    screenWidth |-> viewport[1], screenHeight |-> viewport[2],
                    sx |-> sc[1], sy |-> sc[2], wx |-> wx, wy |-> wy]
    /\ lastOp' = "WorldToScreen"
    /\ UNCHANGED <<Camera, file, zoomOps, panOps, ticks, createdUnderRoot, loads, cycleRun,
                   saved, view>>
    /\ UNCHANGED docVars
    /\ UNCHANGED uiVars

\* a call of Camera.Update(smoothness): the camera before it, the camera it
\* leaves and the bool it returns
CallUpdate(smoothness) ==
    /\ Camera' = CameraUpdateBy(Camera, smoothness)
    /\ probe' = [fn |-> "Update", smoothness |-> smoothness, before |-> Camera,
                 isMoving |-> CameraIsMoving(Camera)]
    /\ lastOp' = "CameraUpdate"
    /\ UNCHANGED <<file, zoomOps, panOps, ticks, createdUnderRoot, loads, cycleRun, saved, view>>
    /\ UNCHANGED docVars
    /\ UNCHANGED uiVars

\* NewNode and UpdateSize: wrapText(text, maxWidth) of a text, and the size
\* calculateNodeSize gives the text
AskWrapText(text, maxWidth) ==
    /\ probe' = [fn |-> "wrapText", text |-> text, maxWidth |-> maxWidth,
                 lines |-> wrapText(text, maxWidth),
                 size |-> calculateNodeSize(text)]
    /\ lastOp' = "wrapText"
    /\ UNCHANGED <<Camera, file, zoomOps, panOps, ticks, createdUnderRoot, loads, cycleRun,
                   saved, view>>
    /\ UNCHANGED docVars
    /\ UNCHANGED uiVars


\* drawEdges: every edge in the order of m.Edges
RECURSIVE drawEdgesFrom(_, _, _, _, _)
drawEdgesFrom(grid, m, i, screenWidth, screenHeight) ==
    IF i > Len(m.Edges) THEN grid
    ELSE drawEdgesFrom(drawEdgeAt(grid, m, i, screenWidth, screenHeight), m, i + 1,
                       screenWidth, screenHeight)

drawEdges(grid, m, screenWidth, screenHeight) ==
    drawEdgesFrom(grid, m, 1, screenWidth, screenHeight)

\* what View paints next: m.drawEdges(grid), then m.drawNodes(grid)
PaintsNext(v) ==
    IF v.edge <= Len(v.m.Edges) THEN "edge"
    ELSE IF v.nodes # {} THEN "node"
    ELSE "nothing"

ViewUnchanged ==
    /\ UNCHANGED <<Camera, file, lastOp, zoomOps, panOps, ticks, createdUnderRoot, loads,
                   cycleRun, probe, saved>>
    /\ UNCHANGED docVars
    /\ UNCHANGED uiVars

\* View is called in a window of viewport[1] columns and viewport[2] rows.
\* Its receiver is a copy of the model, m; it makes the grid of blanks.
ViewBegin(viewport) ==
    /\ view = NoView
    /\ viewport[1] # 0 /\ viewport[2] # 0
    /\ view' = [phase |-> "painting",
                Width |-> viewport[1], Height |-> viewport[2],
                m |-> [Nodes |-> Nodes, Edges |-> Edges, Camera |-> Camera,
                       Selected |-> Selected],
                grid |-> NewGrid(viewport[1], viewport[2]),
                edge |-> 1,
                nodes |-> DOMAIN Nodes]
    /\ ViewUnchanged

\* one turn of the loop of drawEdges
ViewDrawEdge ==
    /\ view.phase = "painting"
    /\ PaintsNext(view) = "edge"
    /\ view' = [view EXCEPT
                  !.grid = drawEdgeAt(view.grid, view.m, view.edge,
                                      view.Width, view.Height - 1),
                  !.edge = view.edge + 1]
    /\ ViewUnchanged

\* one turn of the loop of drawNodes: the map gives the nodes in any order;
\* a panic in drawNode ends the program
ViewDrawNode ==
    /\ view.phase = "painting"
    /\ PaintsNext(view) = "node"
    /\ \E id \in view.nodes :
          LET node == view.m.Nodes[id]
              box == NodeBox(view.m.Camera, node, view.Width, view.Height - 1)
          IN IF drawNodePanics(node, box, view.Height - 1)
             THEN view' = [view EXCEPT !.phase = "panic"]
             ELSE view' = [view EXCEPT
                             !.grid = drawNode(view.grid, view.m.Camera, node,
                                               id = view.m.Selected,
                                               view.Width, view.Height - 1),
                             !.nodes = view.nodes \ {id}]
    /\ ViewUnchanged

\* View returns the frame as a string, and the grid is gone
ViewEnd ==
    /\ view.phase = "painting"
    /\ PaintsNext(view) = "nothing"
    /\ view' = NoView
    /\ ViewUnchanged

\* drawEdge: the connection points it picks for an edge from `from` to `to`
AskConnectionPoints(from, to) ==
    /\ probe' = [fn |-> "drawEdge", from |-> from, to |-> to,
                 points |-> ConnectionPoints(from, to)]
    /\ lastOp' = "drawEdge"
    /\ UNCHANGED <<Camera, file, zoomOps, panOps, ticks, createdUnderRoot, loads, cycleRun,
                   saved, view>>
    /\ UNCHANGED docVars
    /\ UNCHANGED uiVars

\* drawLineSegment from (x1, y1) to (x2, y2): the points its loop visits,
\* followed for at most MaxPasses passes
AskLineSegment(x1, y1, x2, y2) ==
    /\ probe' = [fn |-> "drawLineSegment", x1 |-> x1, y1 |-> y1, x2 |-> x2, y2 |-> y2,
                 cells |-> drawLineSegmentCells(x1, y1, x2, y2, MaxPasses)]
    /\ lastOp' = "drawLineSegment"
    /\ UNCHANGED <<Camera, file, zoomOps, panOps, ticks, createdUnderRoot, loads, cycleRun,
                   saved, view>>
    /\ UNCHANGED docVars
    /\ UNCHANGED uiVars

-----------------------------------------------------------------------------
(* Specifications *)

\* SpecCam: the camera keys and the timer
NextCam ==
    \/ KeyZoomIn
    \/ KeyZoomOut
    \/ KeyPans
    \/ KeyCameraReset
    \/ Tick

SpecCam == Init /\ [][NextCam]_vars

\* SpecLayout: placements of short and tall texts, and selection.  The
\* user types the tall text while fewer than MaxTall tall boxes exist.
LayoutRoom == NextID <= MaxID
TallBoxes == {k \in DOMAIN Nodes : Nodes[k].Height > newNodeHeight}
LayoutScripts ==
    IF Cardinality(TallBoxes) < MaxTall THEN {ShortText, TallText} ELSE {ShortText}

NextLayout ==
    \/ KeyTab(LayoutRoom)
    \/ KeyEnter(LayoutRoom)
    \/ EditChar(LayoutScripts)
    \/ EditEnter(LayoutScripts)
    \/ KeyNext

SpecLayout == Init /\ [][NextLayout]_vars

\* SpecDoc: create, edit, delete, link and select, without save and load.
\* Documents of up to MaxLive nodes are built while NextID <= MaxDocID;
\* after that, up to MaxLongID, documents of up to MaxLateLive nodes.
DocRoom ==
    /\ NextID <= MaxLongID
    /\ Cardinality(DOMAIN Nodes) < (IF NextID <= MaxDocID THEN MaxLive ELSE MaxLateLive)
DocScripts == {ShortText, ShortText \o ShortText}

NextDoc ==
    \/ KeyTab(DocRoom)
    \/ KeyEnter(DocRoom)
    \/ KeyE
    \/ EditChar(DocScripts)
    \/ EditBackspace(DocScripts)
    \/ EditEsc
    \/ EditEnter(DocScripts)
    \/ KeyDelete
    \/ KeyL
    \/ LinkTab
    \/ LinkShiftTab
    \/ LinkEsc
    \/ LinkEnter
    \/ KeyNext
    \/ KeyPrev
    \/ KeyArrows

SpecDoc == Init /\ [][NextDoc]_vars

\* SpecFile: create, select, delete, save and load.  mindmap.json is in the
\* working directory before the program starts or is not; what it holds is
\* not the program's to choose.
FileCamera == [X |-> 0, Y |-> 0, Zoom |-> FP(1)]

\* a document of the README's file format whose only node is "1"
RootlessFile ==
    [Nodes |-> [k \in {"1"} |-> [NewNode("1", ShortText, FP(18), 0) EXCEPT
                                    !.ParentID = "0", !.Color = ColorPalette[1]]],
     Edges |-> <<>>,
     Camera |-> FileCamera]

InitialFiles == {NoFile, <<RootlessFile>>}

InitFile == InitModel /\ file \in InitialFiles

FileRoom == NextID <= MaxFileID /\ Cardinality(DOMAIN Nodes) < MaxLive
FileScripts == {ShortText}

NextFile ==
    \/ KeyTab(FileRoom)
    \/ KeyEnter(FileRoom)
    \/ EditChar(FileScripts)
    \/ EditEnter(FileScripts)
    \/ KeyDelete
    \/ KeyNext
    \/ KeyArrows
    \/ KeySave
    \/ KeyLoad
    \/ KeyLoadError

SpecFile == InitFile /\ [][NextFile]_vars

\* SpecCycle: documents of up to MaxCycleID + 1 nodes and the cyclic
\* selector, with the run of "]" presses recorded
CycleRoom == NextID <= MaxCycleID
CycleScripts == {ShortText}

NextCycle ==
    \/ KeyTab(CycleRoom)
    \/ EditChar(CycleScripts)
    \/ EditEnter(CycleScripts)
    \/ KeyNextRun
    \/ KeyPrev

SpecCycle == Init /\ [][NextCycle]_vars

\* SpecView: every event that touches the camera: pan, zoom, centre, reset,
\* the timer, save and load; up to MaxViewZoomOps zoom keys
ViewRoom == zoomOps < MaxViewZoomOps

NextView ==
    \/ KeyPans
    \/ (ViewRoom /\ KeyZoomIn)
    \/ (ViewRoom /\ KeyZoomOut)
    \/ KeyCenter
    \/ KeyCameraReset
    \/ Tick
    \/ KeySave
    \/ KeyLoad

SpecView == InitFile /\ [][NextView]_vars

\* SpecTimer: the program as the runtime drives it from start: the camera
\* keys, and the timer under weak fairness
NextTimer == \E msg \in Delivered : Update(msg)

SpecTimer == Init /\ [][NextTimer]_vars /\ WF_vars(TimerTick)

\* SpecCoord: the coordinate conversions on camera states over the whole
\* zoom range, window sizes even and odd, screen cells inside and outside
\* the window, and world points in eighths
CoordZooms ==
    {ZoomMin, FP(1) \div 2, (FP(1) * 4) \div 5, FP(1), (FP(1) * 6) \div 5, FP(2), ZoomMax}
CoordXs == {0, FP(5), -(FP(5) \div 4), FP(13) \div 2}
CoordYs == {0, FP(3) \div 2}
CoordCameras ==
    {[X |-> x, Y |-> y, Zoom |-> z, TargetX |-> x, TargetY |-> y, TargetZoom |-> z] :
        x \in CoordXs, y \in CoordYs, z \in CoordZooms}
Viewports == {<<80, 24>>, <<81, 23>>}
CoordCols == {-1, 0, 17, 40, 80}
CoordRows == {0, 11, 23}
CoordWorldXs == {<<k, 8>> : k \in -MaxEighths..MaxEighths}
CoordWorldYs == {<<-3, 8>>, <<4, 8>>, <<12, 8>>}

InitCoord == InitDoc /\ Camera \in CoordCameras /\ file = NoFile

NextCoord ==
    \/ \E v \in Viewports, sx \in CoordCols, sy \in CoordRows : AskScreenToWorld(v, sx, sy)
    \/ \E v \in Viewports, wx \in CoordWorldXs, wy \in CoordWorldYs :
          AskWorldToScreen(v, wx, wy)

SpecCoord == InitCoord /\ [][NextCoord]_vars

\* SpecEase: Camera.Update called again and again, with smoothnesses from
\* 0.1 to 0.9, on cameras at, within the threshold of, and away from their
\* targets; no key is pressed
Smoothnesses == {<<1, 10>>, <<1, 4>>, <<1, 2>>, <<9, 10>>}
EaseXs == {0, 4, threshold, threshold + 1, FP(5), -FP(20)}
EaseYs == {0, -7, FP(3)}
EaseZooms == {FP(1), FP(1) + 3, ZoomMin, ZoomMax}
EaseCameras ==
    {[X |-> x, Y |-> y, Zoom |-> z, TargetX |-> 0, TargetY |-> 0, TargetZoom |-> FP(1)] :
        x \in EaseXs, y \in EaseYs, z \in EaseZooms}

InitEase == InitDoc /\ Camera \in EaseCameras /\ file = NoFile

NextEase == \E smoothness \in Smoothnesses : CallUpdate(smoothness)

SpecEase == InitEase /\ [][NextEase]_vars /\ WF_vars(NextEase)

\* SpecWrap: wrapText on every text of up to MaxWrapLen letters and spaces,
\* on a word one longer than maxTextWidth and on the two-line text, at
\* widths 5, 6 and maxTextWidth
LongWord == Rep("a", maxTextWidth + 1)
WrapTexts ==
    UNION {[1..n -> {"a", " "}] : n \in 0..MaxWrapLen} \cup {LongWord, TallText}
WrapWidths == {5, 6, maxTextWidth}

NextWrap == \E text \in WrapTexts, maxWidth \in WrapWidths : AskWrapText(text, maxWidth)

SpecWrap == Init /\ [][NextWrap]_vars

\* SpecRender: documents of up to MaxRenderID + 1 nodes are built, or loaded
\* from a file with a dangling edge and built on, and View is called
\* between the keys in a window of 44 columns and 17 rows, with
\* the camera at the origin or away from it, so that boxes and edges lie
\* inside the window, across each of its sides and outside it
RenderRoom == NextID <= MaxRenderID
RenderScripts == {ShortText}
RenderViewports == {<<44, 17>>}
RenderCameraAt(x, y) ==
    [X |-> x, Y |-> y, Zoom |-> FP(1), TargetX |-> x, TargetY |-> y, TargetZoom |-> FP(1)]
RenderCameras ==
    {NewCamera, RenderCameraAt(FP(12), FP(5)), RenderCameraAt(-FP(6), -FP(7)),
     RenderCameraAt(FP(20), FP(9))}
RenderIdle == view = NoView


\* a file whose node "1" names a parent "7" that the file does not hold, and
\* whose only edge comes from "7"
DanglingFile ==
    [Nodes |-> [k \in {"0", "1"} |->
                  IF k = "0" THEN NewNode("0", RootText, 0, 0)
                  ELSE [NewNode("1", ShortText, FP(18), 0) EXCEPT
                           !.ParentID = "7", !.Color = ColorPalette[1]]],
     Edges |-> <<[FromID |-> "7", ToID |-> "1"]>>,
     Camera |-> FileCamera]

InitRender == InitDoc /\ Camera \in RenderCameras /\ file \in {NoFile, <<DanglingFile>>}

NextRender ==
    \/ (RenderIdle /\ KeyTab(RenderRoom))
    \/ (RenderIdle /\ KeyEnter(RenderRoom))
    \/ (RenderIdle /\ EditChar(RenderScripts))
    \/ (RenderIdle /\ EditEnter(RenderScripts))
    \/ (RenderIdle /\ KeyNext)
    \/ (RenderIdle /\ KeyLoad)
    \/ \E viewport \in RenderViewports : ViewBegin(viewport)
    \/ ViewDrawEdge
    \/ ViewDrawNode
    \/ ViewEnd

SpecRender == InitRender /\ [][NextRender]_vars

\* SpecEnds: drawEdge on pairs of boxes to the right of, to the left of,
\* below, above and upon each other, with centres aligned and half a cell
\* apart
EndBoxes ==
    {[X |-> x, Y |-> y, Width |-> w, Height |-> h] :
        x \in {0, FP(4), FP(9) \div 2}, y \in {0, FP(6), -FP(3)}, w \in {10, 13}, h \in {3, 4}}

NextEnds == \E from \in EndBoxes, to \in EndBoxes : AskConnectionPoints(from, to)

SpecEnds == Init /\ [][NextEnds]_vars

\* SpecLine: drawLineSegment from two start points to every point at most
\* MaxLineCoord away from the origin along each axis
LineStarts == {<<0, 0>>, <<2, -1>>}

LineEnds == (-MaxLineCoord..MaxLineCoord) \X (-MaxLineCoord..MaxLineCoord)

NextLine == \E p \in LineStarts, q \in LineEnds : AskLineSegment(p[1], p[2], q[1], q[2])

SpecLine == Init /\ [][NextLine]_vars

\* SpecCut: View at zooms near the least, those on the way between two
\* targets among them, in windows large and small.  The document is loaded
\* from a file in which the camera is zoomed out to 0.3 and the text of
\* node "1" is nine lines of one letter, its stored size the one
\* calculateNodeSize gives it; a child is added to it.
NineLines == [i \in 1..17 |-> IF i % 2 = 0 THEN "\n" ELSE "a"]

CutFile ==
    [Nodes |-> [k \in {"0", "1"} |->
                  IF k = "0" THEN NewNode("0", RootText, 0, 0)
                  ELSE [NewNode("1", NineLines, FP(18), 0) EXCEPT
                           !.ParentID = "0", !.Color = ColorPalette[1]]],
     Edges |-> <<[FromID |-> "0", ToID |-> "1"]>>,
     Camera |-> [X |-> 0, Y |-> 0, Zoom |-> (3 * Scale) \div 10]]

CutViewports == {<<44, 17>>, <<3, 2>>, <<1, 1>>}
CutRoom == NextID <= MaxCutID
CutScripts == {ShortText}

InitCut == InitModel /\ file = <<CutFile>>

NextCut ==
    \/ (RenderIdle /\ KeyLoad)
    \/ (RenderIdle /\ ViewRoom /\ KeyZoomIn)
    \/ (RenderIdle /\ ViewRoom /\ KeyZoomOut)
    \/ (RenderIdle /\ Tick)
    \/ (RenderIdle /\ KeyTab(CutRoom))
    \/ (RenderIdle /\ EditChar(CutScripts))
    \/ (RenderIdle /\ EditEnter(CutScripts))
    \/ (RenderIdle /\ KeyNext)
    \/ \E viewport \in CutViewports : ViewBegin(viewport)
    \/ ViewDrawEdge
    \/ ViewDrawNode
    \/ ViewEnd

SpecCut == InitCut /\ [][NextCut]_vars

\* SpecLoad: small documents saved and loaded, starting with no
\* mindmap.json, with the rootless one, with the README's example or with
\* one that does not parse

\* the document the README's file format example gives: node "0" with the
\* text "Root Idea" stored 15 wide and 3 high, and an edge from "0" to "1"
ReadmeFile ==
    [Nodes |-> [k \in {"0"} |-> [NewNode("0", RootText, 0, 0) EXCEPT
                                    !.Width = 15, !.Height = 3]],
     Edges |-> <<[FromID |-> "0", ToID |-> "1"]>>,
     Camera |-> FileCamera]

LoadFiles == InitialFiles \cup {<<ReadmeFile>>, <<BrokenFile>>}

InitLoad == InitModel /\ file \in LoadFiles

LoadRoom == NextID <= MaxLoadID
LoadScripts == {ShortText}

NextLoad ==
    \/ KeyTab(LoadRoom)
    \/ EditChar(LoadScripts)
    \/ EditEnter(LoadScripts)
    \/ KeyDelete
    \/ KeyNext
    \/ KeySave
    \/ KeyLoad
    \/ KeyLoadError

SpecLoad == InitLoad /\ [][NextLoad]_vars

\* SpecMode: the three modes with save and load: create, edit, cancel,
\* delete, link and select on documents saved and loaded as in SpecLoad
NextMode ==
    \/ KeyTab(LoadRoom)
    \/ KeyEnter(LoadRoom)
    \/ KeyE
    \/ EditChar(LoadScripts)
    \/ EditBackspace(LoadScripts)
    \/ EditEsc
    \/ EditEnter(LoadScripts)
    \/ KeyDelete
    \/ KeyL
    \/ LinkTab
    \/ LinkShiftTab
    \/ LinkEsc
    \/ LinkEnter
    \/ KeyNext
    \/ KeySave
    \/ KeyLoad
    \/ KeyLoadError

SpecMode == InitLoad /\ [][NextMode]_vars

\* SpecSize: create, edit, delete, link and select with texts of one line,
\* of a wide line, of two wrapped lines and of the root's, in documents of up to
\* MaxSizeID + 1 nodes
WideText == Rep("a", 12)
SizeScripts == {ShortText, WideText, TallText, RootText}
SizeRoom == NextID <= MaxSizeID

NextSize ==
    \/ KeyTab(SizeRoom)
    \/ KeyEnter(SizeRoom)
    \/ KeyE
    \/ EditChar(SizeScripts)
    \/ EditBackspace(SizeScripts)
    \/ EditEnter(SizeScripts)
    \/ KeyDelete
    \/ KeyL
    \/ LinkTab
    \/ LinkEnter
    \/ KeyNext

SpecSize == Init /\ [][NextSize]_vars

-----------------------------------------------------------------------------
(* Camera properties *)

\* C3: after any sequence of zoom-in, zoom-out, pan, camera-reset and tick
\* events the camera's target zoom and its current zoom both lie in
\* [0.25, 4.0]; ZoomIn and ZoomOut clamp the target when they change it.
ZoomClamped ==
    /\ ZoomMin <= Camera.TargetZoom /\ Camera.TargetZoom <= ZoomMax
    /\ ZoomMin <= Camera.Zoom /\ Camera.Zoom <= ZoomMax

\* the eighth zoom-in in a row (1.2^8 > 4) has been clamped to 4.0 and a
\* tick has moved the current zoom towards it
ZoomClampedWitness ==
    /\ zoomOps = 8
    /\ Camera.TargetZoom = ZoomMax
    /\ ticks > 0
    /\ Camera.Zoom > FP(1)
    /\ Camera.Zoom < ZoomMax

-----------------------------------------------------------------------------
(* Layout properties *)

\* the step is an "enter" of edit mode that creates a node
CreatesNode == Mode = "edit" /\ NextID' = NextID + 1

\* ... by AddChildNode: asked for, or fallen back to from AddSiblingNode
IsChildPlacement ==
    IsCreatingChild \/ ~HasSelectedNode(M) \/ GetSelectedNode(M).ID = "0"

CreatesChild == CreatesNode /\ IsChildPlacement
CreatesSibling == CreatesNode /\ ~IsChildPlacement

\* the node the step creates
NewID == ToString(NextID)

\* the step places a node and pushes down: a child of a parent that has
\* children, or a sibling
PlacesWithPushDown ==
    \/ CreatesChild /\ HasSelectedNode(M)
       /\ GetChildrenOf(M, GetSelectedNode(M).ID) # {}
    \/ CreatesSibling

\* boxes a and b do not share a row: [Y, Y + Height) are disjoint
VerticallyDisjoint(a, b) ==
    a.Y + FP(a.Height) <= b.Y \/ b.Y + FP(b.Height) <= a.Y

ChildrenDisjoint(nodes, parentID) ==
    \A a, b \in {k \in DOMAIN nodes : nodes[k].ParentID = parentID} :
        a # b => VerticallyDisjoint(nodes[a], nodes[b])

\* C4: immediately after a child placement on a parent that already had
\* N >= 1 children, no two children of that parent have overlapping
\* vertical extents.
ChildPlacementKeepsSiblingsApart ==
    [][(CreatesChild /\ HasSelectedNode(M)
        /\ GetChildrenOf(M, GetSelectedNode(M).ID) # {})
       => ChildrenDisjoint(Nodes', GetSelectedNode(M).ID)]_vars

\* C5: a placement with push-down shifts every existing node at or below
\* the new node's Y by exactly the new node's box height + 3.0, leaves the
\* Y of every node above it, and changes no X.
PushDownByActualHeight ==
    [][PlacesWithPushDown =>
        \A k \in DOMAIN Nodes :
            /\ Nodes'[k].X = Nodes[k].X
            /\ Nodes'[k].Y = IF Nodes[k].Y >= Nodes'[NewID].Y
                             THEN Nodes[k].Y + FP(Nodes'[NewID].Height) + FP(3)
                             ELSE Nodes[k].Y]_vars

\* the model record of the next state
MNext ==
    [Nodes |-> Nodes', Edges |-> Edges', Camera |-> Camera', Selected |-> Selected',
     NextID |-> NextID', StatusMsg |-> StatusMsg', NextColorIndex |-> NextColorIndex']

\* C6: sibling placement with the root selected leaves the same document
\* (nodes, edges, selection, NextID, palette cursor) as child placement
\* with the root selected and the same text.
SiblingOfRootIsChild ==
    [][(/\ Mode = "edit" /\ lastOp' = "AddSiblingNode"
        /\ HasSelectedNode(M) /\ GetSelectedNode(M).ID = "0")
       => MNext = AddChildNode(M, EditBuffer)]_vars

\* a sibling was asked for on the root, which already had a child, and a
\* second child of the root came out
SiblingOfRootWitness ==
    /\ lastOp = "AddSiblingNode"
    /\ HasSelectedNode(M)
    /\ GetSelectedNode(M).ParentID = "0"
    /\ StatusMsg = "Created child node " \o Selected
    /\ Cardinality(GetChildrenOf(M, "0")) >= 2

-----------------------------------------------------------------------------
(* Colour properties *)

\* the step creates a node directly under the root
CreatesUnderRoot == CreatesNode /\ Nodes'[NewID].ParentID = "0"

ColourInherited ==
    \A k \in DOMAIN Nodes :
        (Nodes[k].ParentID \in DOMAIN Nodes \ {"0"})
            => Nodes[k].Color = Nodes[Nodes[k].ParentID].Color

\* C8: a new node that is not a child of the root inherits colour: a child
\* its parent's, a sibling the selected sibling's; so in every state
\* reachable without load every node whose parent exists and is not the
\* root has the colour of that parent.
NonRootChildInheritsColour ==
    /\ []ColourInherited
    /\ [][(CreatesNode /\ Nodes'[NewID].ParentID \notin {"", "0"})
          => Nodes'[NewID].Color = GetSelectedNode(M).Color]_vars

\* a grandchild of the root exists beside its parent, with a palette colour
NonRootChildWitness ==
    \E k \in DOMAIN Nodes :
        /\ Nodes[k].ParentID \in DOMAIN Nodes \ {"0"}
        /\ Nodes[k].Color \in {ColorPalette[i] : i \in 1..Len(ColorPalette)}
        /\ lastOp = "AddChildNode"
        /\ Selected = k

-----------------------------------------------------------------------------
(* Edge properties *)

NoDuplicateEdges ==
    \A i, j \in 1..Len(Edges) : Edges[i] = Edges[j] => i = j

\* C10: the edge list never holds an ordered pair twice; AddEdge on a pair
\* that exists leaves the edge list and every node's Links unchanged and
\* sets the status to "Edge already exists".
EdgesStayDistinct ==
    /\ []NoDuplicateEdges
    /\ [][(/\ Mode = "link" /\ lastOp' = "AddEdge"
           /\ EdgeExists(Edges, LinkSourceID, Selected))
          => /\ Edges' = Edges
             /\ Nodes' = Nodes
             /\ StatusMsg' = "Edge already exists"]_vars

\* a link was confirmed onto a pair that was already an edge
EdgesStayDistinctWitness ==
    /\ lastOp = "AddEdge"
    /\ StatusMsg = "Edge already exists"
    /\ Len(Edges) >= 1

-----------------------------------------------------------------------------
(* Document properties *)

\* the edges of a list that do not touch id, in order
EdgesNotTouching(edges, id) ==
    SelectSeq(edges, LAMBDA e : e.FromID # id /\ e.ToID # id)

\* C1: DeleteNode(id) for a non-root id removes exactly node id and exactly
\* the edges whose FromID or ToID is id; every other node, the descendants
\* of id included, and every other edge is unchanged; Selected is reassigned
\* to some remaining node if and only if id was the selected node.
DeleteRemovesExactly ==
    [][(Mode = "normal" /\ lastOp' = "DeleteNode" /\ Selected # "0")
       => /\ DOMAIN Nodes' = DOMAIN Nodes \ {Selected}
          /\ \A k \in DOMAIN Nodes' : Nodes'[k] = Nodes[k]
          /\ Edges' = EdgesNotTouching(Edges, Selected)
          /\ Selected' \in DOMAIN Nodes']_vars

\* C2: a non-empty document contains the root node "0", in every state
\* reachable by create, edit, delete, link, select, save and load.
RootAlwaysExists == DOMAIN Nodes # {} => "0" \in DOMAIN Nodes

-----------------------------------------------------------------------------
(* Directional selection properties *)

\* the nodes other than the selected one whose centre lies strictly on side
\* d of the selected node's centre
EligibleIn(d) ==
    {k \in DOMAIN Nodes \ {Selected} :
        LET relX == Center2X(Nodes[k]) - Center2X(Nodes[Selected])
            relY == Center2Y(Nodes[k]) - Center2Y(Nodes[Selected])
        IN \/ d = <<1, 0>> /\ relX > 0
           \/ d = <<-1, 0>> /\ relX < 0
           \/ d = <<0, 1>> /\ relY > 0
           \/ d = <<0, -1>> /\ relY < 0}

\* perpendicular centre distance * 2 + axial centre distance, from the
\* selected node to node k (in doubled units)
AxisScore(d, k) ==
    LET relX == Abs(Center2X(Nodes[k]) - Center2X(Nodes[Selected]))
        relY == Abs(Center2Y(Nodes[k]) - Center2Y(Nodes[Selected]))
    IN IF d[1] # 0 THEN relY * 2 + relX ELSE relX * 2 + relY

\* the step is an arrow key in direction d
ArrowStep(d) == Mode = "normal" /\ lastOp' = DirOp(d[1], d[2])

\* C11: when some other node's centre lies strictly on the requested side
\* of the selected node's centre, an arrow key selects an eligible node of
\* minimal score (perpendicular distance * 2 + axial distance); nodes,
\* edges and camera are unchanged.
ArrowSelectsBestEligible ==
    [][\A d \in Directions :
        (ArrowStep(d) /\ Selected \in DOMAIN Nodes /\ EligibleIn(d) # {})
        => /\ Selected' \in EligibleIn(d)
           /\ \A j \in EligibleIn(d) : AxisScore(d, Selected') <= AxisScore(d, j)
           /\ UNCHANGED <<Nodes, Edges, Camera>>]_vars

\* "right" was pressed on the root with two children in a column, and the
\* aligned child was selected over the lower one
ArrowSelectsBestWitness ==
    /\ lastOp = DirOp(1, 0)
    /\ Selected = "1"
    /\ {"0", "1", "2"} \subseteq DOMAIN Nodes
    /\ Nodes["1"].ParentID = "0" /\ Nodes["2"].ParentID = "0"
    /\ Nodes["2"].X = Nodes["1"].X
    /\ Nodes["1"].Y = Nodes["0"].Y
    /\ Nodes["2"].Y > Nodes["1"].Y

\* C12: an arrow key leaves Selected, nodes, edges, camera and status
\* message unchanged when no node is eligible in its direction, and when
\* Selected is empty or names no node.
ArrowWithoutTargetChangesNothing ==
    [][\A d \in Directions :
        (ArrowStep(d) /\ (Selected \notin DOMAIN Nodes \/ EligibleIn(d) = {}))
        => UNCHANGED <<Selected, Nodes, Edges, Camera, StatusMsg, NextID,
                       NextColorIndex>>]_vars

\* an arrow key was pressed while Selected named a node the loaded document
\* does not hold, and the status of the load is still shown
ArrowWithoutSelectionWitness ==
    /\ \E d \in Directions : lastOp = DirOp(d[1], d[2])
    /\ Selected # "" /\ Selected \notin DOMAIN Nodes
    /\ DOMAIN Nodes # {}
    /\ StatusMsg = "Loaded from mindmap.json"

-----------------------------------------------------------------------------
(* Cyclic selection properties *)

\* a run of as many "]" presses as there are nodes has just ended
FullCycle ==
    /\ lastOp = "selectNextNode"
    /\ Len(cycleRun) = Cardinality(DOMAIN Nodes) + 1

\* C13: with N nodes and no mutation in between, N consecutive
\* cycle-forward events select every node exactly once and return to the
\* starting selection, and a cycle-back right after a cycle-forward restores
\* the previous selection.
CycleVisitsEveryNodeOnce ==
    /\ [](FullCycle =>
            /\ cycleRun[Len(cycleRun)] = cycleRun[1]
            /\ {cycleRun[i] : i \in 2..Len(cycleRun)} = DOMAIN Nodes)
    /\ [][(/\ lastOp = "selectNextNode" /\ lastOp' = "selectPrevNode"
           /\ Len(cycleRun) >= 2)
          => Selected' = cycleRun[Len(cycleRun) - 1]]_vars

-----------------------------------------------------------------------------
(* Camera motion properties *)

\* the step is a pan, zoom or centre request
CameraRequest ==
    Mode = "normal" /\ lastOp' \in {"Pan", "ZoomIn", "ZoomOut", "Center"}

\* the step changes the camera's current position or zoom
CurrentCameraMoves ==
    \/ Camera'.X # Camera.X
    \/ Camera'.Y # Camera.Y
    \/ Camera'.Zoom # Camera.Zoom

\* pan, zoom-in, zoom-out and centre-on-selected change, of the camera and
\* the document, only the camera's target fields
RequestsMoveOnlyTargets ==
    CameraRequest =>
        /\ ~CurrentCameraMoves
        /\ UNCHANGED <<Nodes, Edges, Selected, NextID, NextColorIndex>>

\* C14 as claimed: pan, zoom and centre change only the camera's target
\* fields, and the camera's current X, Y and Zoom change only in a tick
\* step: no input event moves the current value directly.
CurrentCameraMovesOnlyByTick ==
    [][/\ RequestsMoveOnlyTargets
       /\ CurrentCameraMoves => lastOp' = "CameraUpdate"]_vars

\* C14 as amended: pan, zoom and centre change only the camera's target
\* fields, and the camera's current X, Y and Zoom change only in a tick
\* step, in a camera reset (which installs the initial camera) and in a
\* load (which installs the stored camera).
CurrentCameraMovesOnlyByTickResetLoad ==
    [][/\ RequestsMoveOnlyTargets
       /\ CurrentCameraMoves => lastOp' \in {"CameraUpdate", "NewCamera", "LoadFromFile"}]_vars

\* the camera was centred on the selected node after the timer had moved
\* it: the centre is the target and the current position is elsewhere
CentreRequestWitness ==
    /\ lastOp = "Center"
    /\ HasSelectedNode(M)
    /\ 2 * Camera.TargetX = Center2X(GetSelectedNode(M))
    /\ Camera.X # Camera.TargetX
    /\ Camera.Zoom # Camera.TargetZoom
    /\ ticks > 0

\* the last event was a pan, zoom or centre request
CameraRequested == lastOp \in {"Pan", "ZoomIn", "ZoomOut", "Center"}

\* the camera's current position and zoom are its targets
CameraAtTarget ==
    /\ Camera.X = Camera.TargetX
    /\ Camera.Y = Camera.TargetY
    /\ Camera.Zoom = Camera.TargetZoom

\* C15: with the timer scheduled fairly, from program start, every pan,
\* zoom or centre request is eventually followed by a state in which the
\* camera's current X, Y and Zoom equal their targets.
RequestsEventuallySettle == CameraRequested ~> CameraAtTarget

-----------------------------------------------------------------------------
(* Coordinate properties *)

\* rationals q and p differ by at most half a screen cell: 0.5/zoom
WithinHalfCell(q, p) ==
    LET z == Rat(Camera.Zoom)
    IN Abs(q[1] * p[2] - p[1] * q[2]) * 2 * z[1] <= z[2] * q[2] * p[2]

\* C16: for zoom in [0.25, 4.0] and every window size,
\* WorldToScreen(ScreenToWorld(s)) = s for every integer screen cell s, and
\* ScreenToWorld(WorldToScreen(p)) is within half a screen cell (0.5/zoom
\* world units) of p on each axis.
ConversionsInvert ==
    /\ probe.fn = "ScreenToWorld" =>
          WorldToScreen(Camera, probe.wx, probe.wy, probe.screenWidth, probe.screenHeight)
              = <<probe.sx, probe.sy>>
    /\ probe.fn = "WorldToScreen" =>
          LET back == ScreenToWorld(Camera, probe.sx, probe.sy,
                                    probe.screenWidth, probe.screenHeight)
          IN WithinHalfCell(back[1], probe.wx) /\ WithinHalfCell(back[2], probe.wy)

\* a world point that falls midway between two screen columns of an odd
\* window at the highest zoom was converted, and comes back exactly half a
\* cell away
ConversionsInvertWitness ==
    /\ probe.fn = "WorldToScreen"
    /\ Camera.Zoom = ZoomMax
    /\ probe.screenWidth % 2 = 1
    /\ LET back == ScreenToWorld(Camera, probe.sx, probe.sy,
                                 probe.screenWidth, probe.screenHeight)
           z == Rat(Camera.Zoom)
       IN Abs(back[1][1] * probe.wx[2] - probe.wx[1] * back[1][2]) * 2 * z[1]
              = z[2] * back[1][2] * probe.wx[2]

-----------------------------------------------------------------------------
(* Node size properties *)

\* the larger of two numbers
Max(a, b) == IF a >= b THEN a ELSE b

Min(a, b) == IF a <= b THEN a ELSE b

\* C17: in every state reached by create-child, create-sibling, edit-text,
\* delete, link and select, each node's Height is the wrapped-line count of
\* its text + 2 and its Width is max(10, longest wrapped line + 4): the size
\* calculateNodeSize gives its current text.
SizeMatchesText ==
    \A k \in DOMAIN Nodes :
        LET lines == wrapText(Nodes[k].Text, 22)
        IN /\ Nodes[k].Height = Len(lines) + 2
           /\ Nodes[k].Width = Max(10, MaxLineLen(lines) + 4)
           /\ <<Nodes[k].Width, Nodes[k].Height>>
                 = <<calculateNodeSize(Nodes[k].Text).Width,
                     calculateNodeSize(Nodes[k].Text).Height>>

\* the root's text was edited into one that wraps to two lines, and the
\* root's box grew with it in the step of the edit
SizeMatchesTextWitness ==
    /\ lastOp = "EditText"
    /\ Selected = "0"
    /\ Nodes["0"].Text = TallText
    /\ Nodes["0"].Height = 4
    /\ Nodes["0"].Width = 26
    /\ \E k \in DOMAIN Nodes : Nodes[k].Text = WideText /\ Nodes[k].Width = 16

\* a load has just succeeded
JustLoaded == lastOp = "LoadFromFile" /\ StatusMsg = "Loaded from mindmap.json"

\* C18: after a successful load every node's Width and Height are
\* calculateNodeSize of its loaded text, whatever sizes the file stored.
LoadRecomputesSizes ==
    JustLoaded =>
        \A k \in DOMAIN Nodes :
            /\ Nodes[k].Width = calculateNodeSize(Nodes[k].Text).Width
            /\ Nodes[k].Height = calculateNodeSize(Nodes[k].Text).Height

-----------------------------------------------------------------------------
(* Identity properties *)

\* the numbers that are identities of nodes
NumericIDs == {n \in 0..MaxScan : ToString(n) \in DOMAIN Nodes}

\* a step that creates a node
Creates == lastOp' \in {"AddChildNode", "AddSiblingNode"} /\ Nodes' # Nodes

\* the identity the next created node gets is not a key of the node map
NextIDIsFresh == ToString(NextID) \notin DOMAIN Nodes

\* after a successful load NextID is one past the largest numeric identity
LoadReseedsNextID ==
    JustLoaded /\ NumericIDs # {} =>
        /\ NextID - 1 \in NumericIDs
        /\ \A n \in NumericIDs : n < NextID

\* C19: after a successful load NextID is one past the maximum numeric node
\* identity loaded, and in every state, before and after loads, the identity
\* a new node gets is not yet a key of the node map: a creation adds one key
\* and keeps every existing one.
CreationNeverOverwrites ==
    /\ [](NextIDIsFresh /\ LoadReseedsNextID)
    /\ [][Creates =>
            /\ ToString(NextID) \notin DOMAIN Nodes
            /\ DOMAIN Nodes' = DOMAIN Nodes \cup {ToString(NextID)}
            /\ \A k \in DOMAIN Nodes : Nodes'[k].ID = Nodes[k].ID
                                       /\ Nodes'[k].Text = Nodes[k].Text]_vars

\* the rootless document was loaded over a program whose NextID was 1, the
\* identity of the loaded node, and the node created afterwards got "2"
CreationNeverOverwritesWitness ==
    /\ loads = 1
    /\ lastOp = "AddChildNode"
    /\ DOMAIN Nodes = {"1", "2"}
    /\ NextID = 3

-----------------------------------------------------------------------------
(* Round trip properties *)

\* the edges of a sequence of edges, as a set
EdgeSet(edges) == {edges[i] : i \in 1..Len(edges)}

\* what the round trip is to keep of a node
Kept(n) ==
    [ID |-> n.ID, Text |-> n.Text, X |-> n.X, Y |-> n.Y,
     Color |-> n.Color, ParentID |-> n.ParentID]

\* C20: a load that follows a save gives the node identities the document
\* had when it was saved, each node with the text, position, colour and
\* parent it had then, and the set of edges it had then.
SaveThenLoadReproduces ==
    JustLoaded /\ saved # <<>> =>
        /\ DOMAIN Nodes = DOMAIN saved[1].Nodes
        /\ \A k \in DOMAIN Nodes : Kept(Nodes[k]) = Kept(saved[1].Nodes[k])
        /\ EdgeSet(Edges) = EdgeSet(saved[1].Edges)

\* a document of the root and two nodes of two palette colours, with its
\* two edges, is back after a save and a load
SaveThenLoadWitness ==
    /\ JustLoaded
    /\ saved # <<>>
    /\ Cardinality(DOMAIN Nodes) = 3
    /\ Cardinality(EdgeSet(Edges)) = 2
    /\ Cardinality({Nodes[k].Color : k \in DOMAIN Nodes}) = 3

-----------------------------------------------------------------------------
(* Error properties *)

\* a step that attempts a load
LoadStep == Mode = "normal" /\ lastOp' = "LoadFromFile"

\* a load has just failed
JustFailedLoad == lastOp = "LoadFromFile" /\ StatusMsg # "Loaded from mindmap.json"

\* C21: a load that fails leaves nodes, edges, camera, Selected, NextID and
\* mode as they were and changes only the status message, which reports the
\* error; afterwards the program still takes input.
FailedLoadChangesOnlyStatus ==
    /\ [][LoadStep /\ LoadFails =>
            /\ UNCHANGED <<Nodes, Edges, Camera, Selected, NextID, NextColorIndex, Mode>>
            /\ UNCHANGED uiVars
            /\ StatusMsg' = "Error loading: " \o LoadError]_vars
    /\ [](JustFailedLoad => ENABLED KeySave)

\* a document of two nodes has survived the load of a file that does not
\* parse
FailedLoadWitness ==
    /\ JustFailedLoad
    /\ file = <<BrokenFile>>
    /\ DOMAIN Nodes = {"0", "1"}
    /\ Selected = "1"

\* the three invalid operations, as steps
DeletesRoot == Mode = "normal" /\ lastOp' = "DeleteNode" /\ Selected = "0"
LinksToSelf ==
    /\ Mode = "link" /\ Mode' = "normal" /\ StatusMsg' # "Link cancelled"
    /\ Selected # "" /\ Selected = LinkSourceID
LinksAgain ==
    /\ Mode = "link" /\ lastOp' = "AddEdge"
    /\ EdgeExists(Edges, LinkSourceID, Selected)

\* the status line holds no rejection: it is empty or still the prompt of
\* the link mode
NothingReported == StatusMsg' \in {"", "Select target node (ESC to cancel)"}

\* deleting the root and linking twice are rejected with their messages
RootAndDuplicateAreReported ==
    [][/\ DeletesRoot => /\ UNCHANGED <<Nodes, Edges, Selected>>
                         /\ StatusMsg' = "Cannot delete root node"
       /\ LinksAgain => /\ UNCHANGED <<Nodes, Edges, Selected>>
                        /\ StatusMsg' = "Edge already exists"]_vars

\* C22: deleting the root, confirming a link from a node to itself and
\* confirming a link that duplicates an edge each leave nodes, edges and
\* selection unchanged and are reported by a status message naming the
\* rejection.
InvalidOperationsAreReported ==
    [][/\ DeletesRoot => /\ UNCHANGED <<Nodes, Edges, Selected>>
                         /\ StatusMsg' = "Cannot delete root node"
       /\ LinksAgain => /\ UNCHANGED <<Nodes, Edges, Selected>>
                        /\ StatusMsg' = "Edge already exists"
       /\ LinksToSelf => /\ UNCHANGED <<Nodes, Edges, Selected>>
                         /\ ~NothingReported]_vars

-----------------------------------------------------------------------------
(* Selection properties *)

\* C23: in every state reached by input events, load among them, Selected
\* is empty or the identity of a node of the node map, and it is empty
\* exactly when the document has no nodes.
SelectedIsANode ==
    /\ Selected = "" \/ Selected \in DOMAIN Nodes
    /\ Selected = "" <=> DOMAIN Nodes = {}

-----------------------------------------------------------------------------
(* Placement properties *)

\* the bottom edge of a box
Bottom(n) == n.Y + FP(n.Height)

\* the bottom edge of the child of parentID whose bottom edge is lowest
LowestBottom(parentID) ==
    LET children == GetChildrenOf(M, parentID)
    IN Bottom(Nodes[CHOOSE c \in children :
                       \A d \in children : Bottom(Nodes[d]) <= Bottom(Nodes[c])])

\* C24: a child placement puts the new node at x = parent.X + parent.Width
\* + 5.0, and at y = parent.Y if the parent has no children, otherwise 3.0
\* below the bottom edge of the existing child whose bottom edge is lowest,
\* whatever the heights of the parent and of its children.
ChildPlacedBelowLowestChild ==
    [][CreatesChild /\ HasSelectedNode(M) =>
          LET parent == GetSelectedNode(M)
          IN /\ Nodes'[NewID].X = parent.X + FP(parent.Width) + FP(5)
             /\ Nodes'[NewID].Y =
                   IF GetChildrenOf(M, parent.ID) = {} THEN parent.Y
                   ELSE LowestBottom(parent.ID) + FP(3)]_vars

\* C25: a sibling placement on a node that is not the root puts the new
\* node at x = selected.X and y = selected.Y + selected.Height + 3.0, gives
\* it the ParentID of the selected node, pushes down every node at or below
\* that y, and does not move the selected node.
SiblingPlacedBelowSelected ==
    [][CreatesSibling =>
          LET selectedNode == GetSelectedNode(M)
              y == selectedNode.Y + FP(selectedNode.Height) + FP(3)
          IN /\ Nodes'[NewID].X = selectedNode.X
             /\ Nodes'[NewID].Y = y
             /\ Nodes'[NewID].ParentID = selectedNode.ParentID
             /\ \A k \in DOMAIN Nodes : Nodes[k].Y >= y => Nodes'[k].Y > Nodes[k].Y
             /\ Nodes'[Selected].X = selectedNode.X
             /\ Nodes'[Selected].Y = selectedNode.Y]_vars

\* the new sibling stands 3.0 below a box four rows high, in its column,
\* and the sibling that stood there was pushed down below it
SiblingPlacedWitness ==
    /\ lastOp = "AddSiblingNode"
    /\ Selected \in DOMAIN Nodes
    /\ \E i, j \in DOMAIN Nodes \ {Selected, "0"} :
          /\ i # j
          /\ Nodes[i].Height = 4
          /\ Nodes[i].X = Nodes[Selected].X
          /\ Nodes[i].Y + FP(7) = Nodes[Selected].Y
          /\ Nodes[i].ParentID = Nodes[Selected].ParentID
          /\ Nodes[j].X = Nodes[Selected].X
          /\ Nodes[j].Y = Nodes[Selected].Y + FP(6)

-----------------------------------------------------------------------------
(* Parent edge properties *)

\* the step places a node under a parent identity
PlacesUnderParent == CreatesNode /\ Nodes'[NewID].ParentID # ""

\* how often the edge (fromID, toID) is in a list of edges
EdgeCount(edges, fromID, toID) ==
    Cardinality({i \in 1..Len(edges) :
                    edges[i].FromID = fromID /\ edges[i].ToID = toID})

\* the Links of node k hold id
Linked(nodes, k, id) == \E i \in 1..Len(nodes[k].Links) : nodes[k].Links[i] = id

\* each node but the root whose parent is in the node map has the edge from
\* its parent
ParentEdgesPresent ==
    \A k \in DOMAIN Nodes \ {"0"} :
        Nodes[k].ParentID \in DOMAIN Nodes => EdgeExists(Edges, Nodes[k].ParentID, k)

-----------------------------------------------------------------------------
(* Interpolation properties *)

\* before, after and target of the three axes of the last Camera.Update
UpdateAxes ==
    {<<probe.before.X, Camera.X, probe.before.TargetX>>,
     <<probe.before.Y, Camera.Y, probe.before.TargetY>>,
     <<probe.before.Zoom, Camera.Zoom, probe.before.TargetZoom>>}

\* the axis had more than 0.001 to go
FarFromTarget(axis) == Abs(axis[3] - axis[1]) > threshold

\* the axis moved by the fraction smoothness of what it had to go, to the
\* nearest unit of the fixed point
MovedByFraction(axis, smoothness) ==
    2 * Abs((axis[2] - axis[1]) * smoothness[2] - (axis[3] - axis[1]) * smoothness[1])
        <= smoothness[2]

\* what a call of Camera.Update(s) does
UpdateEases ==
    probe.fn = "Update" =>
        /\ \A axis \in UpdateAxes :
              IF FarFromTarget(axis)
              THEN MovedByFraction(axis, probe.smoothness) /\ axis[2] # axis[1]
              ELSE axis[2] = axis[3]
        /\ probe.isMoving <=> \E axis \in UpdateAxes : FarFromTarget(axis)
        /\ probe.isMoving <=> ~CameraAtTarget
        /\ (\A axis \in UpdateAxes : axis[1] = axis[3]) =>
              Camera = probe.before /\ ~probe.isMoving
        /\ Camera.TargetX = probe.before.TargetX
        /\ Camera.TargetY = probe.before.TargetY
        /\ Camera.TargetZoom = probe.before.TargetZoom

-----------------------------------------------------------------------------
(* Wrapping properties *)

\* C28: wrapText(text, maxWidth) with maxWidth >= 5 returns only lines of
\* at most maxWidth characters, a word longer than maxWidth being broken
\* into chunks wherever it stands; so a box is at most 22 + 4 = 26 wide.
WrappedLinesFit ==
    probe.fn = "wrapText" =>
        /\ \A i \in 1..Len(probe.lines) : Len(probe.lines[i]) <= probe.maxWidth
        /\ probe.size.Width <= maxTextWidth + 4

-----------------------------------------------------------------------------
(* Load and camera properties *)

\* C29: right after a successful load the camera's target position and zoom
\* are its loaded current position and zoom, so that the next tick changes
\* no field of the camera and Camera.Update returns false, whatever the
\* targets were before the load.
NoMotionOnLoad ==
    /\ [](JustLoaded =>
            /\ Camera.TargetX = file[1].Camera.X /\ Camera.X = file[1].Camera.X
            /\ Camera.TargetY = file[1].Camera.Y /\ Camera.Y = file[1].Camera.Y
            /\ Camera.TargetZoom = file[1].Camera.Zoom /\ Camera.Zoom = file[1].Camera.Zoom
            /\ CameraUpdate(Camera) = Camera
            /\ ~CameraIsMoving(Camera))
    /\ [][JustLoaded /\ lastOp' = "CameraUpdate" => Camera' = Camera]_vars

\* the document was saved with the camera on its way, and the load has put
\* the targets where the camera was then
NoMotionOnLoadWitness ==
    /\ JustLoaded
    /\ saved # <<>>
    /\ Camera.X # 0
    /\ Camera.Zoom # FP(1)
    /\ CameraAtTarget

\* the frame is finished: every edge and every node of the copy is painted
FrameFinished == view.phase = "painting" /\ PaintsNext(view) = "nothing"

\* the cells of the border of a box
BorderCells(box) ==
    LET right == box.sx + box.width - 1
        bottom == box.sy + box.height - 1
    IN {<<y, x>> : y \in {box.sy, bottom}, x \in box.sx..right}
       \cup {<<y, x>> : y \in box.sy..bottom, x \in {box.sx, right}}

\* the cells of the grid that the border of node id covers in the frame;
\* none if drawNode leaves the node out or paints a dot for it
BorderInFrame(v, id) ==
    LET box == NodeBox(v.m.Camera, v.m.Nodes[id], v.Width, v.Height - 1)
    IN IF NodeOffGrid(box, v.Height - 1) \/ NodeTooSmall(box) THEN {}
       ELSE BorderCells(box) \cap DOMAIN v.grid

\* a step that paints an edge leaves every cell that is not blank as it is
FirstWriterWins ==
    view.phase = "painting" /\ PaintsNext(view) = "edge" /\ view'.phase = "painting"
        => \A p \in DOMAIN view.grid :
              view.grid[p].Char # " " => view'.grid[p] = view.grid[p]

\* in a finished frame the cells of the borders hold what drawNode wrote
BordersOverEdges ==
    FrameFinished =>
        \A id \in DOMAIN view.m.Nodes :
            \A p \in BorderInFrame(view, id) : view.grid[p].By = "node"

\* C30: within one call of View, painting an edge never changes a cell that
\* is not blank (the first writer wins), and, all edges being painted
\* before any box, in the finished frame every cell of the grid that the
\* border of a visible node covers holds what a node's painter wrote there,
\* never what an edge's did.
EdgesNeverHideBorders == []BordersOverEdges /\ [][FirstWriterWins]_vars

\* a finished frame of three nodes and two edges that can be drawn, where
\* the edges had painted a cell of a border, and a cell outside every box
\* still shows an edge
EdgesNeverHideBordersWitness ==
    /\ FrameFinished
    /\ Cardinality(DOMAIN view.m.Nodes) = 3
    /\ Len(view.m.Edges) = 2
    /\ \A i \in 1..2 : {view.m.Edges[i].FromID, view.m.Edges[i].ToID} \subseteq DOMAIN view.m.Nodes
    /\ \E id \in DOMAIN view.m.Nodes :
          \E p \in BorderInFrame(view, id) :
              drawEdges(NewGrid(view.Width, view.Height), view.m,
                        view.Width, view.Height - 1)[p].By = "edge"
    /\ \E p \in DOMAIN view.grid : view.grid[p].By = "edge"

\* the edge that View paints next has an end that is not in the node map
NextEdgeDangles ==
    /\ view.phase = "painting"
    /\ PaintsNext(view) = "edge"
    /\ ~({view.m.Edges[view.edge].FromID, view.m.Edges[view.edge].ToID}
            \subseteq DOMAIN view.m.Nodes)

\* the text of a new sibling is about to be confirmed, and the selected
\* node names a parent that is not in the node map
SiblingOfOrphanAsked ==
    /\ view = NoView
    /\ Mode = "edit" /\ IsCreatingNode /\ ~IsCreatingChild
    /\ EditBuffer \in RenderScripts
    /\ Selected \in DOMAIN Nodes
    /\ Nodes[Selected].ParentID \notin DOMAIN Nodes \cup {""}

\* C31: an edge with an end that is not in the node map stays in the edge
\* list, and View passes over it: the turn of the loop for it has a result,
\* the grid as it was, and the step changes nothing of the document; and a node created as the sibling of a
\* node whose parent is missing is created all the same, with that parent's
\* identity and an edge from it.
DanglingEdgesAreSkipped ==
    /\ [](NextEdgeDangles =>
            drawEdgeAt(view.grid, view.m, view.edge, view.Width, view.Height - 1)
                = view.grid)
    /\ [][NextEdgeDangles =>
            /\ view'.grid = view.grid
            /\ view'.edge = view.edge + 1
            /\ Edges' = Edges /\ Nodes' = Nodes]_vars
    /\ [](SiblingOfOrphanAsked => ENABLED EditEnter(RenderScripts))
    /\ [][SiblingOfOrphanAsked /\ lastOp' = "AddSiblingNode" =>
            LET id == ToString(NextID)
            IN /\ DOMAIN Nodes' = DOMAIN Nodes \cup {id}
               /\ Nodes'[id].ParentID = Nodes[Selected].ParentID
               /\ Edges' = Append(Edges, [FromID |-> Nodes[Selected].ParentID, ToID |-> id])
               /\ Selected' = id]_vars

\* a frame is finished whose document holds two dangling edges, the file's
\* and that of a node created under the missing parent, and no edge has
\* painted a cell
DanglingEdgesWitness ==
    /\ FrameFinished
    /\ Len(view.m.Edges) = 2
    /\ \A i \in 1..2 : view.m.Edges[i].FromID \notin DOMAIN view.m.Nodes
    /\ Cardinality(DOMAIN view.m.Nodes) = 3
    /\ \A p \in DOMAIN view.grid : view.grid[p].By # "edge"
    /\ Edges = view.m.Edges

\* the runes of a line: horizontal, vertical and the two diagonals
LineGlyphs == {"-", "|", "/", "\\"}

\* C32: every cell that the edge rasterizer has painted holds one of exactly
\* four glyphs, the horizontal, the vertical or one of the two diagonals.
EdgeCellsHoldLineGlyphs ==
    view.phase = "painting" =>
        \A p \in DOMAIN view.grid :
            view.grid[p].By = "edge" => view.grid[p].Char \in LineGlyphs

\* the point (x, y) lies on the border of the box of node n, in the world
OnBorder(n, x, y) ==
    LET right == n.X + FP(n.Width)
        bottom == n.Y + FP(n.Height)
    IN \/ x \in {n.X, right} /\ n.Y <= y /\ y <= bottom
       \/ y \in {n.Y, bottom} /\ n.X <= x /\ x <= right

\* C33: drawEdge picks its connection points from the places of the two
\* centres: a target centre to the right gives the middle of the source's
\* right edge and the middle of the target's left edge, one to the left the
\* mirror image; centres exactly one above the other give the middle of the
\* source's bottom edge and of the target's top edge when the target is
\* below, and the mirror image otherwise; each point lies on the border of
\* its box and is not its centre.
ConnectionPointsOnBorders ==
    probe.fn = "drawEdge" =>
        LET from == probe.from
            to == probe.to
            fc == GetCenter(from)
            tc == GetCenter(to)
            pts == probe.points
        IN /\ tc.x > fc.x => pts = <<from.X + FP(from.Width), fc.y, to.X, tc.y>>
           /\ tc.x < fc.x => pts = <<from.X, fc.y, to.X + FP(to.Width), tc.y>>
           /\ tc.x = fc.x /\ tc.y > fc.y
                 => pts = <<fc.x, from.Y + FP(from.Height), tc.x, to.Y>>
           /\ tc.x = fc.x /\ tc.y <= fc.y
                 => pts = <<fc.x, from.Y, tc.x, to.Y + FP(to.Height)>>
           /\ OnBorder(from, pts[1], pts[2])
           /\ OnBorder(to, pts[3], pts[4])
           /\ <<pts[1], pts[2]>> # <<fc.x, fc.y>>
           /\ <<pts[3], pts[4]>> # <<tc.x, tc.y>>

\* the target is right below the source and of another height, the centres
\* one above the other, and the points are on the bottom and the top edge
ConnectionPointsWitness ==
    /\ probe.fn = "drawEdge"
    /\ GetCenter(probe.to).x = GetCenter(probe.from).x
    /\ probe.to.Y > probe.from.Y + FP(probe.from.Height)
    /\ probe.to.Height # probe.from.Height
    /\ probe.points[2] = probe.from.Y + FP(probe.from.Height)
    /\ probe.points[4] = probe.to.Y

\* the cells of the grid that View makes for a window
GridCells(width, height) == (0..(height - 2)) \X (0..(width - 1))

\* C34: a call of View comes to its end without a failure, whatever the
\* document, the zoom between 0.25 and 4.0 and the window: the grid keeps
\* the cells it was made with, and no cut of a text line to the scaled
\* width less 4 is made with a negative width.
ViewCompletes ==
    /\ view.phase # "panic"
    /\ view.phase = "painting" => DOMAIN view.grid = GridCells(view.Width, view.Height)

\* C35: the mode and its payload agree in every state: LinkSourceID is not
\* empty exactly when the mode is link mode, and then it names a node of
\* the node map; and in normal mode the edit buffer is empty and
\* IsCreatingNode is false.
ModeAndPayloadAgree ==
    /\ LinkSourceID # "" <=> Mode = "link"
    /\ Mode = "link" => LinkSourceID \in DOMAIN Nodes
    /\ Mode = "normal" => EditBuffer = <<>> /\ ~IsCreatingNode

\* the step is "esc" in edit mode
EditCancelled == Mode = "edit" /\ StatusMsg' = "Cancelled"

\* the step is "enter" in edit mode on an empty buffer
\* (a character typed fills the buffer, "esc" changes the message, and
\* "backspace" changes nothing)
EmptyConfirmed ==
    /\ Mode = "edit" /\ EditBuffer = <<>>
    /\ EditBuffer' = <<>> /\ StatusMsg' = StatusMsg

\* the step is "esc" in link mode
LinkCancelled == Mode = "link" /\ StatusMsg' = "Link cancelled"

\* C36: "esc" in edit mode, "esc" in link mode and "enter" in edit mode on
\* an empty buffer each lead to normal mode and leave the document as it
\* is: the nodes with their texts, places, sizes and colours, the edges,
\* NextID and the palette cursor.
CancelLeavesDocument ==
    [][EditCancelled \/ EmptyConfirmed \/ LinkCancelled =>
          /\ Mode' = "normal"
          /\ Nodes' = Nodes
          /\ Edges' = Edges
          /\ NextID' = NextID
          /\ NextColorIndex' = NextColorIndex]_vars

\* an edit was cancelled in a document of three nodes and an edge
CancelLeavesDocumentWitness ==
    /\ Mode = "normal"
    /\ StatusMsg = "Cancelled"
    /\ Cardinality(DOMAIN Nodes) >= 3
    /\ Len(Edges) >= 1
    /\ NextColorIndex >= 1

\* the step is a call of AddChildNode or AddSiblingNode
Created == lastOp' \in {"AddChildNode", "AddSiblingNode"}

\* C37: every creation of a node, child or sibling, adds exactly one node,
\* whose identity is the decimal string of NextID as it was; NextID grows
\* by one and the new node is selected.  Without load NextID never
\* decreases and is above every identity in the node map, so that no
\* identity is handed out twice, deletions or not.
CreationTakesNextID ==
    /\ [][Created =>
            /\ ToString(NextID) \notin DOMAIN Nodes
            /\ DOMAIN Nodes' = DOMAIN Nodes \cup {ToString(NextID)}
            /\ Cardinality(DOMAIN Nodes') = Cardinality(DOMAIN Nodes) + 1
            /\ Nodes'[ToString(NextID)].ID = ToString(NextID)
            /\ NextID' = NextID + 1
            /\ Selected' = ToString(NextID)]_vars
    /\ [][NextID' >= NextID]_vars
    /\ [](\A id \in DOMAIN Nodes : ScanOK(id) /\ ScanInt(id) < NextID)

\* a node has been created after nodes with lower identities were deleted:
\* its identity is past theirs, which stay unused
CreationTakesNextIDWitness ==
    /\ lastOp \in {"AddChildNode", "AddSiblingNode"}
    /\ Selected = ToString(NextID - 1)
    /\ \E n \in 1..(NextID - 2) : ToString(n) \notin DOMAIN Nodes

\* the step confirms a link and an edge is added
LinkAdded == Mode = "link" /\ lastOp' = "AddEdge" /\ Edges' # Edges

\* C38: without load no edge runs from a node to itself, the source of a
\* link in progress is a node of the node map, and an edge added by
\* confirming a link runs from that source to the selected node, both in the
\* node map when it is added.
NoSelfLoopsAndLinksBetweenNodes ==
    /\ [](\A i \in 1..Len(Edges) : Edges[i].FromID # Edges[i].ToID)
    /\ [](Mode = "link" => LinkSourceID \in DOMAIN Nodes)
    /\ [][LinkAdded =>
            /\ {LinkSourceID, Selected} \subseteq DOMAIN Nodes
            /\ DOMAIN Nodes' = DOMAIN Nodes
            /\ Edges' = Append(Edges, [FromID |-> LinkSourceID, ToID |-> Selected])]_vars

\* a link has been confirmed between two nodes after another node was
\* deleted, and the edge it added is the last
LinksBetweenNodesWitness ==
    /\ lastOp = "AddEdge"
    /\ Len(Edges) >= 1
    /\ StatusMsg = "Created link " \o Edges[Len(Edges)].FromID \o " -> " \o Edges[Len(Edges)].ToID
    /\ {Edges[Len(Edges)].FromID, Edges[Len(Edges)].ToID} \subseteq DOMAIN Nodes
    /\ Cardinality(DOMAIN Nodes) < NextID

LineAsked == probe.fn = "drawLineSegment"

LoopReachesEndInBox ==
    LineAsked =>
        LET dx == probe.x2 - probe.x1
            dy == probe.y2 - probe.y1
            n == Len(probe.cells)
        IN /\ n <= Max(Abs(dx), Abs(dy))
           /\ IF dx = 0 /\ dy = 0 THEN n = 0
              ELSE n > 0 /\ probe.cells[n] = [x |-> probe.x2, y |-> probe.y2]
           /\ \A i \in 1..n :
                 /\ Min(probe.x1, probe.x2) <= probe.cells[i].x
                 /\ probe.cells[i].x <= Max(probe.x1, probe.x2)
                 /\ Min(probe.y1, probe.y2) <= probe.cells[i].y
                 /\ probe.cells[i].y <= Max(probe.y1, probe.y2)

\* a segment up and to the left, neither flat, upright nor diagonal, walked
\* in as many passes as its longer side
LoopReachesEndWitness ==
    /\ LineAsked
    /\ probe.x2 - probe.x1 = -5
    /\ probe.y2 - probe.y1 = -2
    /\ Len(probe.cells) = 5
    /\ \E i \in 1..4 : probe.cells[i].y # probe.cells[i + 1].y

====
